---------------------------- MODULE Spec2Model ----------------------------
(***************************************************************************)
(* FinTrack: keyword categorizer, account-scope resolver, monthly          *)
(* aggregation and transaction ingestion, modelled from services.py,       *)
(* app.py and bank_api.py.                                                 *)
(*                                                                         *)
(* Text is a sequence of one-character strings, so that lower-casing,      *)
(* substring search, splitting, integer parsing and string ordering are    *)
(* computed as the code computes them.  Money is an integer number of      *)
(* rupees (the feed produces whole rupees).  SQL NULL / Python None is     *)
(* the value None.                                                         *)
(***************************************************************************)
EXTENDS Integers, Sequences, FiniteSets, TLC

VARIABLES
  bank_accounts,    \* rows of table bank_accounts (legacy accounts)
  linked_accounts,  \* rows of table linked_accounts
  categories,       \* rows of table categories
  transactions,     \* rows of table transactions
  now,              \* the calendar month datetime.now() falls in
  resp,             \* the last request and the response it got
  inflight          \* a request being served step by step, others running
                    \* between its steps

vars ==
  <<bank_accounts, linked_accounts, categories, transactions, now, resp, inflight>>

None == -1

\* no request is being served step by step
NoRequest == [stage |-> "none"]

(***************************************************************************)
(* Bounds of the model.                                                    *)
(***************************************************************************)
MaxWords == 2       \* words per description given to the categorizer
MaxMissing == 1     \* category rows missing from the store (categorizer)
MaxLinked == 1      \* linked accounts ever created
MaxLegacy == 1      \* legacy accounts created through the callback
MaxTx == 2          \* stored transactions
MaxFeed == 2        \* candidates the feed supplies in one statement
MaxDemoTx == 3      \* stored transactions after a demo generation
MaxDemoRepeat == 4  \* the same, where a statement repeats a candidate
MaxTicks == 1       \* months the clock advances

(***************************************************************************)
(* Text.                                                                   *)
(***************************************************************************)
Ascii ==
  <<" ","+","-","0","1","2","3","4","5","6","7","8","9",
    "A","B","C","D","E","F","G","H","I","J","K","L","M",
    "N","O","P","Q","R","S","T","U","V","W","X","Y","Z","_",
    "a","b","c","d","e","f","g","h","i","j","k","l","m",
    "n","o","p","q","r","s","t","u","v","w","x","y","z">>

UpperCase ==
  <<"A","B","C","D","E","F","G","H","I","J","K","L","M",
    "N","O","P","Q","R","S","T","U","V","W","X","Y","Z">>

LowerCase ==
  <<"a","b","c","d","e","f","g","h","i","j","k","l","m",
    "n","o","p","q","r","s","t","u","v","w","x","y","z">>

Digits == <<"0","1","2","3","4","5","6","7","8","9">>

\* code point order of the characters used
Ord(c) == CHOOSE i \in 1..Len(Ascii) : Ascii[i] = c

\* str.lower()
LowerChar(c) ==
  IF \E i \in 1..Len(UpperCase) : UpperCase[i] = c
  THEN LowerCase[CHOOSE i \in 1..Len(UpperCase) : UpperCase[i] = c]
  ELSE c

Lower(s) == [i \in 1..Len(s) |-> LowerChar(s[i])]

\* Python's  sub in s
Contains(s, sub) ==
  \/ sub = <<>>
  \/ \E i \in 1..(Len(s) - Len(sub) + 1) :
       s[i] = sub[1] /\ SubSeq(s, i, i + Len(sub) - 1) = sub

\* str.startswith
StartsWith(s, prefix) ==
  /\ Len(s) >= Len(prefix)
  /\ SubSeq(s, 1, Len(prefix)) = prefix

\* Python's string comparison  a < b
RECURSIVE StrLess(_, _)
StrLess(a, b) ==
  IF b = <<>> THEN FALSE
  ELSE IF a = <<>> THEN TRUE
  ELSE IF a[1] = b[1] THEN StrLess(Tail(a), Tail(b))
  ELSE Ord(a[1]) < Ord(b[1])

(***************************************************************************)
(* services.py: the keyword table and the categorizer.                    *)
(***************************************************************************)
CATEGORY_KEYWORDS ==
  <<
    [name |-> "Food & Drink",
     keywords |-> <<
       <<"z","o","m","a","t","o">>,
       <<"s","w","i","g","g","y">>,
       <<"m","c","d","o","n","a","l","d","s">>,
       <<"m","c","d">>,
       <<"s","t","a","r","b","u","c","k","s">>,
       <<"c","a","f","e"," ","c","o","f","f","e","e"," ","d","a","y">>,
       <<"c","c","d">>,
       <<"d","o","m","i","n","o","s">>,
       <<"p","i","z","z","a"," ","h","u","t">>,
       <<"e","a","t","s","u","r","e">>,
       <<"b","u","r","g","e","r"," ","k","i","n","g">>,
       <<"k","f","c">>,
       <<"s","u","b","w","a","y">>,
       <<"d","u","n","k","i","n">> >>],
    [name |-> "Groceries",
     keywords |-> <<
       <<"b","i","g","b","a","s","k","e","t">>,
       <<"b","l","i","n","k","i","t">>,
       <<"z","e","p","t","o">>,
       <<"g","r","o","f","e","r","s">>,
       <<"j","i","o","m","a","r","t">>,
       <<"d","m","a","r","t">>,
       <<"r","e","l","i","a","n","c","e"," ","f","r","e","s","h">>,
       <<"m","o","r","e">>,
       <<"s","p","e","n","c","e","r","s">>,
       <<"n","a","t","u","r","e"," ","b","a","s","k","e","t">>,
       <<"s","t","a","r"," ","b","a","z","a","a","r">> >>],
    [name |-> "Fuel",
     keywords |-> <<
       <<"i","n","d","i","a","n"," ","o","i","l">>,
       <<"i","o","c">>,
       <<"h","p","c","l">>,
       <<"h","i","n","d","u","s","t","a","n"," ","p","e","t","r","o","l","e","u","m">>,
       <<"b","h","a","r","a","t"," ","p","e","t","r","o","l","e","u","m">>,
       <<"b","p","c","l">>,
       <<"s","h","e","l","l">>,
       <<"e","s","s","a","r">>,
       <<"r","e","l","i","a","n","c","e"," ","p","e","t","r","o","l","e","u","m">>,
       <<"p","e","t","r","o","l">>,
       <<"d","i","e","s","e","l">>,
       <<"f","u","e","l">> >>],
    [name |-> "Subscriptions",
     keywords |-> <<
       <<"n","e","t","f","l","i","x">>,
       <<"s","p","o","t","i","f","y">>,
       <<"p","r","i","m","e"," ","v","i","d","e","o">>,
       <<"a","m","a","z","o","n"," ","p","r","i","m","e">>,
       <<"h","o","t","s","t","a","r">>,
       <<"d","i","s","n","e","y">>,
       <<"j","i","o","c","i","n","e","m","a">>,
       <<"s","o","n","y","l","i","v">>,
       <<"z","e","e","5">>,
       <<"a","p","p","l","e"," ","m","u","s","i","c">>,
       <<"y","o","u","t","u","b","e"," ","p","r","e","m","i","u","m">>,
       <<"v","o","o","t">> >>],
    [name |-> "Utilities",
     keywords |-> <<
       <<"b","s","e","s">>,
       <<"t","a","t","a"," ","p","o","w","e","r">>,
       <<"b","e","s","c","o","m">>,
       <<"a","d","a","n","i"," ","e","l","e","c","t","r","i","c","i","t","y">>,
       <<"a","i","r","t","e","l">>,
       <<"j","i","o">>,
       <<"v","o","d","a","f","o","n","e">>,
       <<"v","i">>,
       <<"b","s","n","l">>,
       <<"m","t","n","l">>,
       <<"e","l","e","c","t","r","i","c","i","t","y">>,
       <<"w","a","t","e","r"," ","b","i","l","l">>,
       <<"g","a","s"," ","b","i","l","l">>,
       <<"p","i","p","e","d"," ","g","a","s">>,
       <<"i","n","d","r","a","p","r","a","s","t","h","a"," ","g","a","s">>,
       <<"m","a","h","a","n","a","g","a","r"," ","g","a","s">> >>],
    [name |-> "Transport",
     keywords |-> <<
       <<"o","l","a">>,
       <<"u","b","e","r">>,
       <<"r","a","p","i","d","o">>,
       <<"r","e","d","b","u","s">>,
       <<"i","r","c","t","c">>,
       <<"m","e","t","r","o">>,
       <<"d","e","l","h","i"," ","m","e","t","r","o">>,
       <<"m","u","m","b","a","i"," ","m","e","t","r","o">>,
       <<"b","a","n","g","a","l","o","r","e"," ","m","e","t","r","o">>,
       <<"n","a","m","m","a"," ","m","e","t","r","o">>,
       <<"m","a","k","e","m","y","t","r","i","p">>,
       <<"g","o","i","b","i","b","o">>,
       <<"y","a","t","r","a">> >>],
    [name |-> "Shopping",
     keywords |-> <<
       <<"a","m","a","z","o","n">>,
       <<"f","l","i","p","k","a","r","t">>,
       <<"m","y","n","t","r","a">>,
       <<"m","e","e","s","h","o">>,
       <<"a","j","i","o">>,
       <<"n","y","k","a","a">>,
       <<"r","e","l","i","a","n","c","e"," ","d","i","g","i","t","a","l">>,
       <<"c","r","o","m","a">>,
       <<"v","i","j","a","y"," ","s","a","l","e","s">>,
       <<"l","i","f","e","s","t","y","l","e">>,
       <<"w","e","s","t","s","i","d","e">>,
       <<"m","a","x"," ","f","a","s","h","i","o","n">>,
       <<"p","a","n","t","a","l","o","o","n","s">> >>],
    [name |-> "Payments",
     keywords |-> <<
       <<"p","a","y","t","m">>,
       <<"p","h","o","n","e","p","e">>,
       <<"g","p","a","y">>,
       <<"g","o","o","g","l","e"," ","p","a","y">>,
       <<"b","h","i","m">>,
       <<"u","p","i">>,
       <<"m","o","b","i","k","w","i","k">> >>],
    [name |-> "Rent/EMI",
     keywords |-> <<
       <<"r","e","n","t">>,
       <<"e","m","i">>,
       <<"h","o","u","s","i","n","g"," ","l","o","a","n">>,
       <<"h","o","m","e"," ","l","o","a","n">>,
       <<"h","d","f","c">>,
       <<"i","c","i","c","i">>,
       <<"s","b","i">>,
       <<"a","x","i","s">> >>]
  >>

\* Category.query.filter_by(name=category_name).first(): the row, or None
CategoryByName(cats, category_name) ==
  IF \E c \in cats : c.name = category_name
  THEN (CHOOSE c \in cats : c.name = category_name).id
  ELSE None

\* the inner loop of categorize_transaction over the keywords of category ci,
\* resumed at keyword ki: the id assigned, or None when the keywords run out
RECURSIVE ScanKeywords(_, _, _, _)
ScanKeywords(ci, ki, description_lower, cats) ==
  IF ki > Len(CATEGORY_KEYWORDS[ci].keywords) THEN None
  ELSE IF /\ Contains(description_lower, CATEGORY_KEYWORDS[ci].keywords[ki])
          /\ CategoryByName(cats, CATEGORY_KEYWORDS[ci].name) # None
       THEN CategoryByName(cats, CATEGORY_KEYWORDS[ci].name)
       ELSE ScanKeywords(ci, ki + 1, description_lower, cats)

\* the outer loop over CATEGORY_KEYWORDS.items(), resumed at category ci
RECURSIVE ScanCategories(_, _, _)
ScanCategories(ci, description_lower, cats) ==
  IF ci > Len(CATEGORY_KEYWORDS) THEN None
  ELSE LET hit == ScanKeywords(ci, 1, description_lower, cats)
       IN IF hit # None THEN hit
          ELSE ScanCategories(ci + 1, description_lower, cats)

\* categorize_transaction without the .lower() of the description
categorize_transaction_case_sensitive(transaction, cats) ==
  IF transaction.category_id # None
  THEN [tx |-> transaction, ret |-> FALSE]
  ELSE LET found == ScanCategories(1, transaction.description, cats)
       IN IF found # None
          THEN [tx |-> [transaction EXCEPT !.category_id = found], ret |-> TRUE]
          ELSE [tx |-> transaction, ret |-> FALSE]

\* categorize_transaction without the "already categorized" early return
categorize_transaction_overwriting(transaction, cats) ==
  LET found == ScanCategories(1, Lower(transaction.description), cats)
  IN IF found # None
     THEN [tx |-> [transaction EXCEPT !.category_id = found], ret |-> TRUE]
     ELSE [tx |-> transaction, ret |-> FALSE]

\* categorize_transaction: the transaction as the call leaves it, and the
\* value the call returns
categorize_transaction(transaction, cats) ==
  IF transaction.category_id # None
  THEN [tx |-> transaction, ret |-> FALSE]
  ELSE LET found == ScanCategories(1, Lower(transaction.description), cats)
       IN IF found # None
          THEN [tx |-> [transaction EXCEPT !.category_id = found], ret |-> TRUE]
          ELSE [tx |-> transaction, ret |-> FALSE]

\* initialize_categories on an empty table: one row per name, ids in order
DefaultCategoryNames ==
  [i \in 1..Len(CATEGORY_KEYWORDS) |-> CATEGORY_KEYWORDS[i].name]
    \o <<"Uncategorized", "Other", "Income">>

InitialCategories ==
  {[id |-> i, name |-> DefaultCategoryNames[i]] : i \in 1..Len(DefaultCategoryNames)}

(***************************************************************************)
(* The categorizer on its own: a transaction with any description from     *)
(* the vocabulary below, over a store from which some of the category      *)
(* rows may be missing.                                                    *)
(***************************************************************************)
Words ==
  { <<"S","W","I","G","G","Y"," ","D","E","L","I","V","E","R","Y">>,
    <<"R","E","N","T"," ","P","A","Y","M","E","N","T">>,
    <<"X","Y","Z"," ","R","A","N","D","O","M"," ","S","T","R","I","N","G"," ","1","2","3">>,
    <<"V","i","j","a","y"," ","S","a","l","e","s">>,
    <<"A","m","a","z","o","n"," ","P","r","i","m","e">> }

RECURSIVE JoinWords(_)
JoinWords(ws) ==
  IF ws = <<>> THEN <<>>
  ELSE IF Len(ws) = 1 THEN ws[1]
  ELSE ws[1] \o <<" ">> \o JoinWords(Tail(ws))

Descriptions ==
  { JoinWords(ws) : ws \in UNION { [1..n -> Words] : n \in 0..MaxWords } }

StoredCategorySets ==
  { InitialCategories \ missing :
      missing \in { m \in SUBSET InitialCategories : Cardinality(m) <= MaxMissing } }

StartNow == [year |-> 2025, month |-> 12]

InitCat ==
  /\ bank_accounts = {}
  /\ linked_accounts = {}
  /\ categories \in StoredCategorySets
  /\ \E d \in Descriptions :
       transactions =
         { [id |-> 1, user_id |-> 1, bank_account_id |-> None, account_id |-> None,
            category_id |-> None, date |-> [year |-> 2025, month |-> 12, day |-> 1],
            description |-> d, amount |-> 100, transaction_type |-> "debit"] }
  /\ now = StartNow
  /\ resp = [op |-> "none"]
  /\ inflight = NoRequest

\* a call categorize_transaction(t) on a stored transaction
CategorizeCall(t) ==
  LET r == categorize_transaction(t, categories)
  IN /\ transactions' = (transactions \ {t}) \cup {r.tx}
     /\ resp' = [op |-> "categorize", tx_id |-> t.id, before |-> t.category_id,
                 ret |-> r.ret]
     /\ UNCHANGED <<bank_accounts, linked_accounts, categories, now, inflight>>

\* the caller rewrites the description between two calls
SetDescription(t, d) ==
  /\ d # t.description
  /\ transactions' = (transactions \ {t}) \cup {[t EXCEPT !.description = d]}
  /\ resp' = [op |-> "set_description", tx_id |-> t.id]
  /\ UNCHANGED <<bank_accounts, linked_accounts, categories, now, inflight>>

NextCat ==
  \/ \E t \in transactions : CategorizeCall(t)
  \/ \E t \in transactions : \E d \in Descriptions : SetDescription(t, d)

CatSpec == InitCat /\ [][NextCat]_vars

(***************************************************************************)
(* Conversions between text, integers and dates.  An absent request        *)
(* parameter and an empty one are both <<>>: the code only tests them for  *)
(* truth.                                                                  *)
(***************************************************************************)
IsDigit(c) == \E i \in 1..Len(Digits) : Digits[i] = c

DigitValue(c) == (CHOOSE i \in 1..Len(Digits) : Digits[i] = c) - 1

\* str.strip() of blanks
RECURSIVE LStrip(_)
LStrip(s) == IF s # <<>> /\ s[1] = " " THEN LStrip(Tail(s)) ELSE s

RECURSIVE RStrip(_)
RStrip(s) ==
  IF s # <<>> /\ s[Len(s)] = " " THEN RStrip(SubSeq(s, 1, Len(s) - 1)) ELSE s

Strip(s) == RStrip(LStrip(s))

\* the digits of an integer literal: digits, single underscores between them
ValidDigits(s) ==
  /\ s # <<>>
  /\ IsDigit(s[1]) /\ IsDigit(s[Len(s)])
  /\ \A i \in 1..Len(s) : IsDigit(s[i]) \/ s[i] = "_"
  /\ \A i \in 1..(Len(s) - 1) : ~(s[i] = "_" /\ s[i + 1] = "_")

RECURSIVE DigitsValue(_, _)
DigitsValue(s, acc) ==
  IF s = <<>> THEN acc
  ELSE IF s[1] = "_" THEN DigitsValue(Tail(s), acc)
  ELSE DigitsValue(Tail(s), 10 * acc + DigitValue(s[1]))

\* int(s) for a str: ok is FALSE where int raises ValueError
ParseInt(s) ==
  LET t == Strip(s)
      signed == t # <<>> /\ t[1] \in {"+", "-"}
      body == IF signed THEN Tail(t) ELSE t
  IN IF ValidDigits(body)
     THEN [ok |-> TRUE,
           value |-> IF signed /\ t[1] = "-" THEN 0 - DigitsValue(body, 0)
                     ELSE DigitsValue(body, 0)]
     ELSE [ok |-> FALSE, value |-> 0]

\* s.split(sep) for a one-character separator
RECURSIVE Split(_, _, _)
Split(s, sep, current) ==
  IF s = <<>> THEN <<current>>
  ELSE IF s[1] = sep THEN <<current>> \o Split(Tail(s), sep, <<>>)
  ELSE Split(Tail(s), sep, Append(current, s[1]))

\* s.replace(old, ''): every occurrence of old removed, left to right
RECURSIVE RemoveAll(_, _)
RemoveAll(s, old) ==
  IF s = <<>> THEN <<>>
  ELSE IF StartsWith(s, old) THEN RemoveAll(SubSeq(s, Len(old) + 1, Len(s)), old)
  ELSE <<s[1]>> \o RemoveAll(Tail(s), old)

\* a natural number as decimal digits, zero-padded to width (%Y, %m, %d,
\* {:04d}, {:02d})
RECURSIVE FormatNat(_, _)
FormatNat(n, width) ==
  IF n < 10 /\ width <= 1 THEN <<Digits[n + 1]>>
  ELSE FormatNat(n \div 10, width - 1) \o <<Digits[(n % 10) + 1]>>

\* strftime('%Y-%m')
FormatYearMonth(year, month) ==
  FormatNat(year, 4) \o <<"-">> \o FormatNat(month, 2)

\* strftime('%Y-%m-%d')
FormatDate(d) ==
  FormatNat(d.year, 4) \o <<"-">> \o FormatNat(d.month, 2) \o <<"-">>
    \o FormatNat(d.day, 2)

\* datetime.strptime(s, '%Y-%m-%d') of a date the feed formatted
ParseDate(s) ==
  LET parts == Split(s, "-", <<>>)
  IN [year |-> ParseInt(parts[1]).value, month |-> ParseInt(parts[2]).value,
      day |-> ParseInt(parts[3]).value]

\* year, month = map(int, selected_month.split('-')); ok is FALSE where the
\* statement raises
ParseYearMonth(selected_month) ==
  LET parts == Split(selected_month, "-", <<>>)
  IN IF Len(parts) = 2 /\ ParseInt(parts[1]).ok /\ ParseInt(parts[2]).ok
     THEN [ok |-> TRUE, year |-> ParseInt(parts[1]).value,
           month |-> ParseInt(parts[2]).value]
     ELSE [ok |-> FALSE, year |-> 0, month |-> 0]

Abs(x) == IF x < 0 THEN 0 - x ELSE x

Max(a, b) == IF a >= b THEN a ELSE b

RECURSIVE SumAmounts(_)
SumAmounts(txs) ==
  IF txs = {} THEN 0
  ELSE LET t == CHOOSE t \in txs : TRUE
       IN t.amount + SumAmounts(txs \ {t})

\* SELECT DISTINCT ... ORDER BY ... DESC over strings
RECURSIVE DistinctDesc(_)
DistinctDesc(strings) ==
  IF strings = {} THEN <<>>
  ELSE LET top == CHOOSE a \in strings : \A b \in strings : ~StrLess(a, b)
       IN <<top>> \o DistinctDesc(strings \ {top})

\* list.sort(reverse=True) on a list of strings
RECURSIVE InsertDesc(_, _)
InsertDesc(x, sorted) ==
  IF sorted = <<>> THEN <<x>>
  ELSE IF StrLess(x, sorted[1]) THEN <<sorted[1]>> \o InsertDesc(x, Tail(sorted))
  ELSE <<x>> \o sorted

RECURSIVE SortDesc(_)
SortDesc(list) ==
  IF list = <<>> THEN <<>> ELSE InsertDesc(list[1], SortDesc(Tail(list)))

Range(seq) == { seq[i] : i \in 1..Len(seq) }

\* the orders in which a query without ORDER BY may return its rows
Orderings(rows) ==
  { order \in [1..Cardinality(rows) -> rows] : Range(order) = rows }

(***************************************************************************)
(* The application: users, the bank feed, and the request handlers.        *)
(***************************************************************************)
Users == {1, 2}

\* a sample of the merchants table of generate_monthly_statement
merchants ==
  { [name |-> <<"S","w","i","g","g","y">>, base |-> 380],
    [name |-> <<"A","T","M"," ","W","i","t","h","d","r","a","w","a","l">>,
     base |-> 5000] }

\* values of random.randint(1, 28) and random.randint(-30, 30) the model draws
FeedDays == {15}
FeedVariances == {0}

\* one transaction dictionary generate_monthly_statement may produce
Candidates(year, month) ==
  { [date |-> FormatDate([year |-> year, month |-> month, day |-> day]),
     description |-> <<"P","a","y","m","e","n","t"," ","t","o"," ">> \o m.name,
     amount |-> Max(50, m.base + ((m.base * variance) \div 100))] :
      day \in FeedDays, m \in merchants, variance \in FeedVariances }

\* generate_monthly_statement(user, year, month): the lists it may return,
\* its 15 to 25 draws scaled down to 1 to MaxFeed
generate_monthly_statement(year, month) ==
  UNION { [1..n -> Candidates(year, month)] : n \in 1..MaxFeed }

\* the primary key SQLite gives the next inserted row
NextId(rows) ==
  IF rows = {} THEN 1
  ELSE (CHOOSE r \in rows : \A q \in rows : q.id <= r.id).id + 1

\* Model.query.get(id): the set holding the row, empty when there is none
Get(rows, id) == { r \in rows : r.id = id }

\* get_user_accounts / get_linked_accounts
get_user_accounts(u) == { a \in bank_accounts : a.user_id = u }

get_linked_accounts(u) == { a \in linked_accounts : a.user_id = u }

CurrentMonth == FormatYearMonth(now.year, now.month)

\* datetime.utcnow(), to the month: the months since year 0
UtcNow == now.year * 12 + now.month

\* parse_account_param
parse_account_param(account_param) ==
  IF account_param = <<"a","l","l">>
  THEN [account_type |-> "all", account_id |-> None]
  ELSE IF StartsWith(account_param, <<"l","i","n","k","e","d","_">>)
  THEN LET n == ParseInt(RemoveAll(account_param, <<"l","i","n","k","e","d","_">>))
       IN IF n.ok THEN [account_type |-> "linked", account_id |-> n.value]
          ELSE [account_type |-> "all", account_id |-> None]
  ELSE LET n == ParseInt(account_param)
       IN IF n.ok THEN [account_type |-> "legacy", account_id |-> n.value]
          ELSE [account_type |-> "all", account_id |-> None]

\* the rows a scope's filter selects (the filter of every per-scope query)
ScopeRows(u, account_type, account_id) ==
  IF account_type = "all" THEN { t \in transactions : t.user_id = u }
  ELSE IF account_type = "legacy"
  THEN { t \in transactions : t.bank_account_id = account_id }
  ELSE { t \in transactions : t.account_id = account_id }

\* the month filter dropped from the query
MonthRows_unfiltered(rows, year, month) == rows

\* ... further restricted by extract('year') == year, extract('month') == month
MonthRows(rows, year, month) ==
  { t \in rows : t.date.year = year /\ t.date.month = month }

\* get_selected_account_and_month
get_selected_account_and_month(u, account_param, month_param) ==
  IF get_user_accounts(u) = {} /\ get_linked_accounts(u) = {}
  THEN [account_id |-> None, account_type |-> "none", selected_month |-> <<>>,
        all_months |-> <<>>]
  ELSE
    LET parsed == parse_account_param(account_param)
        given == IF month_param = <<>> THEN CurrentMonth ELSE month_param
        selected_month ==
          IF ParseYearMonth(given).ok THEN given
          ELSE FormatYearMonth(now.year, now.month)
        all_months ==
          DistinctDesc({ FormatYearMonth(t.date.year, t.date.month) :
                           t \in ScopeRows(u, parsed.account_type, parsed.account_id) })
    IN [account_id |-> parsed.account_id,
        account_type |-> parsed.account_type,
        selected_month |-> selected_month,
        all_months |->
          IF all_months = <<>> THEN <<selected_month>>
          ELSE IF selected_month \notin Range(all_months)
               THEN SortDesc(<<selected_month>> \o all_months)
               ELSE all_months]

\* func.sum(Transaction.amount) ... .scalar(): NULL when no row matches
func_sum(rows) == IF rows = {} THEN None ELSE SumAmounts(rows)

\* the dashboard without its `or 0`
OrZero_missing(x) == x

\* `x or 0`
OrZero(x) == IF x = None \/ x = 0 THEN 0 ELSE x

\* the grouping with COUNT in place of SUM
GroupByCategory_counting(rows) ==
  { [name |-> c.name, total |-> Cardinality({ t \in rows : t.category_id = c.id })] :
      c \in { c \in categories : \E t \in rows : t.category_id = c.id } }

\* Category JOIN Transaction ... GROUP BY Category.name, func.sum(amount):
\* one row per category with a transaction of rows assigned to it
GroupByCategory(rows) ==
  { [name |-> c.name, total |-> SumAmounts({ t \in rows : t.category_id = c.id })] :
      c \in { c \in categories : \E t \in rows : t.category_id = c.id } }

\* the rows ordered by ascending sum
OrderBySumDesc_ascending(groups) ==
  { order \in Orderings(groups) :
      \A i \in 1..(Len(order) - 1) : order[i].total <= order[i + 1].total }

\* ORDER BY func.sum(amount) DESC: the orders the sorted rows may come in
OrderBySumDesc(groups) ==
  { order \in Orderings(groups) :
      \A i \in 1..(Len(order) - 1) : order[i].total >= order[i + 1].total }

\* the year and month a handler filters by
FilterMonth(selected_month) ==
  IF ParseYearMonth(selected_month).ok
  THEN [year |-> ParseYearMonth(selected_month).year,
        month |-> ParseYearMonth(selected_month).month]
  ELSE [year |-> now.year, month |-> now.month]

Init ==
  /\ bank_accounts = {}
  /\ linked_accounts = {}
  /\ categories = InitialCategories
  /\ transactions = {}
  /\ now = StartNow
  /\ resp = [op |-> "none"]
  /\ inflight = NoRequest

\* no response is in flight: the server is ready for a request
Idle == resp.op = "none"

\* the clock moves into the next calendar month
Tick ==
  /\ Idle
  /\ (now.year - StartNow.year) * 12 + (now.month - StartNow.month) < MaxTicks
  /\ now' = IF now.month = 12 THEN [year |-> now.year + 1, month |-> 1]
            ELSE [year |-> now.year, month |-> now.month + 1]
  /\ UNCHANGED <<bank_accounts, linked_accounts, categories, transactions, resp,
               inflight>>

AuthTokens == {"", "token-A"}

\* the name handle_api_callback gives the account it creates
AccountName(account_count) ==
  IF account_count = 0
  THEN <<"P","r","i","m","a","r","y"," ","A","c","c","o","u","n","t">>
  ELSE <<"A","c","c","o","u","n","t"," ">> \o FormatNat(account_count + 1, 1)

\* bank_api.handle_api_callback(args, user): links a legacy account
handle_api_callback(u, auth_token) ==
  /\ IF auth_token = ""
     THEN /\ resp' = [op |-> "callback", user |-> u, ret |-> FALSE]
          /\ UNCHANGED bank_accounts
     ELSE IF \E a \in bank_accounts : a.user_id = u /\ a.aa_token = auth_token
     THEN /\ resp' = [op |-> "callback", user |-> u, ret |-> TRUE]
          /\ UNCHANGED bank_accounts
     ELSE /\ Cardinality(bank_accounts) < MaxLegacy
          /\ bank_accounts' = bank_accounts \cup
               {[id |-> NextId(bank_accounts), user_id |-> u,
                 account_name |-> AccountName(Cardinality(get_user_accounts(u))),
                 aa_token |-> auth_token, is_active |-> TRUE]}
          /\ resp' = [op |-> "callback", user |-> u, ret |-> TRUE]
  /\ UNCHANGED <<linked_accounts, categories, transactions, now, inflight>>

\* POST /api/bank/connect: links a LinkedAccount; names_given is FALSE when
\* the form lacks the bank name or the nickname
bank_connect_new(u, names_given) ==
  /\ IF ~names_given
     THEN /\ resp' = [op |-> "connect", user |-> u, status |-> "error"]
          /\ UNCHANGED linked_accounts
     ELSE /\ Cardinality(linked_accounts) < MaxLinked
          /\ linked_accounts' = linked_accounts \cup
               {[id |-> NextId(linked_accounts), user_id |-> u, is_active |-> TRUE,
                 last_synced |-> None]}
          /\ resp' = [op |-> "connect", user |-> u, status |-> "success"]
  /\ UNCHANGED <<bank_accounts, categories, transactions, now, inflight>>

\* the duplicate check finding nothing
ExistingLinked_none(txs, linked_id, tx_date, tx_data) == {}

\* the duplicate check of bank_sync_account: the stored rows the candidate
\* is taken to repeat
ExistingLinked(txs, linked_id, tx_date, tx_data) ==
  { t \in txs : /\ t.account_id = linked_id
                /\ t.date = tx_date
                /\ t.description = tx_data.description
                /\ t.amount = Abs(tx_data.amount) }

\* the loop of bank_sync_account over monthly_transactions: the table after it
RECURSIVE IngestLinked(_, _, _, _)
IngestLinked(feed, u, linked_id, txs) ==
  IF feed = <<>> THEN txs
  ELSE LET tx_data == feed[1]
           tx_date == ParseDate(tx_data.date)
           new_transaction ==
             [id |-> NextId(txs), user_id |-> u, bank_account_id |-> None,
              account_id |-> linked_id, category_id |-> None, date |-> tx_date,
              description |-> tx_data.description,
              amount |-> Abs(tx_data.amount), transaction_type |-> "debit"]
       IN IngestLinked(Tail(feed), u, linked_id,
            IF ExistingLinked(txs, linked_id, tx_date, tx_data) = {}
            THEN txs \cup {categorize_transaction(new_transaction, categories).tx}
            ELSE txs)

\* POST /api/bank/sync; account_id 0 stands for a missing or falsy id. The
\* statement is whatever generate_monthly_statement produces for this month.
bank_sync_account(u, account_id) ==
  /\ IF account_id = 0
     THEN /\ resp' = [op |-> "sync", user |-> u, account_id |-> account_id,
                      status |-> 400, feed |-> <<>>, new_transactions |-> 0]
          /\ UNCHANGED <<transactions, linked_accounts>>
     ELSE IF \A a \in Get(linked_accounts, account_id) : a.user_id # u
     THEN /\ resp' = [op |-> "sync", user |-> u, account_id |-> account_id,
                      status |-> 403, feed |-> <<>>, new_transactions |-> 0]
          /\ UNCHANGED <<transactions, linked_accounts>>
     ELSE \E feed \in generate_monthly_statement(now.year, now.month) :
          /\ transactions' = IngestLinked(feed, u, account_id, transactions)
          /\ Cardinality(transactions') <= MaxTx
          /\ linked_accounts' =
               { IF a.id = account_id THEN [a EXCEPT !.last_synced = UtcNow] ELSE a :
                   a \in linked_accounts }
          /\ resp' = [op |-> "sync", user |-> u, account_id |-> account_id,
                      status |-> 200, feed |-> feed,
                      new_transactions |->
                        Cardinality(transactions') - Cardinality(transactions)]
  /\ UNCHANGED <<bank_accounts, categories, now, inflight>>

\* the duplicate check of sync_all_accounts
ExistingLegacy(txs, bank_account_id, tx_data) ==
  { t \in txs : /\ t.bank_account_id = bank_account_id
                /\ t.description = tx_data.description
                /\ t.amount = tx_data.amount }

\* the inner loop of sync_all_accounts over one account's statement
RECURSIVE IngestLegacy(_, _, _, _)
IngestLegacy(feed, u, bank_account_id, txs) ==
  IF feed = <<>> THEN txs
  ELSE LET tx_data == feed[1]
           new_tx ==
             [id |-> NextId(txs), user_id |-> u,
              bank_account_id |-> bank_account_id, account_id |-> None,
              category_id |-> None, date |-> ParseDate(tx_data.date),
              description |-> tx_data.description, amount |-> tx_data.amount,
              transaction_type |-> "debit"]
       IN IngestLegacy(Tail(feed), u, bank_account_id,
            IF ExistingLegacy(txs, bank_account_id, tx_data) = {}
            THEN txs \cup {categorize_transaction(new_tx, categories).tx}
            ELSE txs)

\* the outer loop of sync_all_accounts over user.bank_accounts, in id order;
\* feeds gives the statement generated for each account
RECURSIVE SyncAccounts(_, _, _, _)
SyncAccounts(accounts, u, feeds, txs) ==
  IF accounts = {} THEN txs
  ELSE LET account == CHOOSE a \in accounts : \A b \in accounts : a.id <= b.id
       IN SyncAccounts(accounts \ {account}, u, feeds,
            IF account.is_active
            THEN IngestLegacy(feeds[account.id], u, account.id, txs)
            ELSE txs)

\* bank_api.sync_all_accounts(user): one generated statement per account
sync_all_accounts(u) ==
  /\ \E feeds \in [{ a.id : a \in { b \in get_user_accounts(u) : b.is_active } } ->
                     generate_monthly_statement(now.year, now.month)] :
       /\ transactions' = SyncAccounts(get_user_accounts(u), u, feeds, transactions)
       /\ Cardinality(transactions') <= MaxTx
       /\ resp' = [op |-> "sync_all", user |-> u, status |-> "success",
                   feeds |-> feeds,
                   transactions_synced |->
                     Cardinality(transactions') - Cardinality(transactions)]
  /\ UNCHANGED <<bank_accounts, linked_accounts, categories, now, inflight>>

\* the category_id values a request body may carry: none (absent or null),
\* a string, or an integer
ManualInputs ==
  { [kind |-> "none", str |-> <<>>, int |-> 0],
    [kind |-> "str", str |-> <<>>, int |-> 0],
    [kind |-> "str", str |-> <<"n","u","l","l">>, int |-> 0],
    [kind |-> "str", str |-> <<"1","0">>, int |-> 0],
    [kind |-> "str", str |-> <<"a","b","c">>, int |-> 0],
    [kind |-> "int", str |-> <<>>, int |-> 99] }

\* POST /api/transactions/<tx_id>/categorize
categorize_manual(u, tx_id, category_id) ==
  /\ IF Get(transactions, tx_id) = {}
     THEN /\ resp' = [op |-> "categorize_manual", user |-> u, tx_id |-> tx_id,
                      status |-> 404]
          /\ UNCHANGED transactions
     ELSE LET transaction == CHOOSE t \in transactions : t.id = tx_id
              cleared == /\ category_id.kind = "str"
                         /\ category_id.str \in {<<>>, <<"n","u","l","l">>}
              truthy == \/ category_id.kind = "str" /\ category_id.str # <<>>
                        \/ category_id.kind = "int" /\ category_id.int # 0
              number == IF category_id.kind = "str" THEN ParseInt(category_id.str)
                        ELSE [ok |-> TRUE, value |-> category_id.int]
              stored == IF cleared \/ category_id.kind = "none" THEN None
                        ELSE IF truthy THEN number.value
                        ELSE category_id.int
          IN IF transaction.user_id # u
             THEN /\ resp' = [op |-> "categorize_manual", user |-> u,
                              tx_id |-> tx_id, status |-> 403]
                  /\ UNCHANGED transactions
             ELSE IF ~cleared /\ truthy
                       /\ (~number.ok \/ Get(categories, number.value) = {})
             THEN /\ resp' = [op |-> "categorize_manual", user |-> u,
                              tx_id |-> tx_id, status |-> 400]
                  /\ UNCHANGED transactions
             ELSE /\ transactions' = (transactions \ {transaction}) \cup
                       {[transaction EXCEPT !.category_id = stored]}
                  /\ resp' = [op |-> "categorize_manual", user |-> u,
                              tx_id |-> tx_id, status |-> 200]
  /\ UNCHANGED <<bank_accounts, linked_accounts, categories, now, inflight>>

\* the (account, month) query strings the model sends with a page request
Requests ==
  { [account |-> <<"a","l","l">>, month |-> <<>>],
    [account |-> <<"a","l","l">>, month |-> <<"2","0","2","5","-","1","2">>],
    [account |-> <<"a","l","l">>, month |-> <<"2","0","2","5","-","1","3">>],
    [account |-> <<"a","l","l">>, month |-> <<"2","0","2","5","-","3">>],
    [account |-> <<"a","l","l">>, month |-> <<"x","x">>],
    [account |-> <<"1">>, month |-> <<>>],
    [account |-> <<"l","i","n","k","e","d","_","1">>,
     month |-> <<"2","0","2","5","-","1","2">>],
    [account |-> <<"9","9","9","9","9","9","9">>, month |-> <<>>],
    [account |-> <<"a","b","c">>, month |-> <<>>],
    [account |-> <<"l","i","n","k","e","d","_","x">>, month |-> <<>>] }

\* GET /: the dashboard
dashboard(u, account_param, month_param) ==
  /\ IF get_user_accounts(u) = {} /\ get_linked_accounts(u) = {}
     THEN resp' = [op |-> "dashboard", user |-> u, account_param |-> account_param,
                   month_param |-> month_param, resolved |-> FALSE,
                   account_id |-> None, account_type |-> "none",
                   selected_month |-> CurrentMonth, all_months |-> <<CurrentMonth>>,
                   total_spending |-> 0, transaction_count |-> 0,
                   top_category |-> "N/A"]
     ELSE LET sel == get_selected_account_and_month(u, account_param, month_param)
              ym == FilterMonth(sel.selected_month)
              rows == MonthRows(ScopeRows(u, sel.account_type, sel.account_id),
                                ym.year, ym.month)
          IN \E order \in OrderBySumDesc(GroupByCategory(rows)) :
               resp' = [op |-> "dashboard", user |-> u,
                        account_param |-> account_param,
                        month_param |-> month_param, resolved |-> TRUE,
                        account_id |-> sel.account_id,
                        account_type |-> sel.account_type,
                        selected_month |-> sel.selected_month,
                        all_months |-> sel.all_months,
                        total_spending |-> OrZero(func_sum(rows)),
                        transaction_count |-> Cardinality(rows),
                        top_category |->
                          IF order = <<>> THEN "N/A" ELSE order[1].name]
  /\ UNCHANGED <<bank_accounts, linked_accounts, categories, transactions, now, inflight>>

\* ORDER BY Transaction.date DESC: the orders the listed rows may come in
OrderByDateDesc(rows) ==
  { order \in Orderings(rows) :
      \A i \in 1..(Len(order) - 1) :
        LET a == order[i].date
            b == order[i + 1].date
        IN \/ a.year > b.year
           \/ a.year = b.year /\ a.month > b.month
           \/ a.year = b.year /\ a.month = b.month /\ a.day >= b.day }

\* GET /transactions: the transactions page
transactions_page(u, account_param, month_param) ==
  /\ IF get_user_accounts(u) = {} /\ get_linked_accounts(u) = {}
     THEN resp' = [op |-> "transactions", user |-> u,
                   account_param |-> account_param, month_param |-> month_param,
                   resolved |-> FALSE, account_id |-> None, account_type |-> "none",
                   selected_month |-> CurrentMonth, all_months |-> <<CurrentMonth>>,
                   transactions |-> <<>>]
     ELSE LET sel == get_selected_account_and_month(u, account_param, month_param)
              ym == FilterMonth(sel.selected_month)
              rows == MonthRows(ScopeRows(u, sel.account_type, sel.account_id),
                                ym.year, ym.month)
          IN \E order \in OrderByDateDesc(rows) :
               resp' = [op |-> "transactions", user |-> u,
                        account_param |-> account_param,
                        month_param |-> month_param, resolved |-> TRUE,
                        account_id |-> sel.account_id,
                        account_type |-> sel.account_type,
                        selected_month |-> sel.selected_month,
                        all_months |-> sel.all_months,
                        transactions |-> order]
  /\ UNCHANGED <<bank_accounts, linked_accounts, categories, transactions, now, inflight>>

\* the account check of the legacy and linked branches of the chart API
ChartAccountOwned(u, account_type, account_id) ==
  \/ account_type = "all"
  \/ account_type = "legacy"
       /\ \E a \in Get(bank_accounts, account_id) : a.user_id = u
  \/ account_type = "linked"
       /\ \E a \in Get(linked_accounts, account_id) : a.user_id = u

\* GET /api/spending-by-category: the chart API
spending_by_category(u, account_param, month_param) ==
  /\ LET ym == FilterMonth(IF month_param = <<>> THEN CurrentMonth ELSE month_param)
         parsed == parse_account_param(account_param)
         rows == MonthRows(ScopeRows(u, parsed.account_type, parsed.account_id),
                           ym.year, ym.month)
         uncategorized == func_sum({ t \in rows : t.category_id = None })
     IN IF ~ChartAccountOwned(u, parsed.account_type, parsed.account_id)
        THEN resp' = [op |-> "chart", user |-> u, account_param |-> account_param,
                      month_param |-> month_param, status |-> 200,
                      labels |-> <<>>, data |-> <<>>]
        ELSE \E spending_data \in Orderings(GroupByCategory(rows)) :
               resp' = [op |-> "chart", user |-> u,
                        account_param |-> account_param,
                        month_param |-> month_param, status |-> 200,
                        labels |->
                          [i \in 1..Len(spending_data) |-> spending_data[i].name]
                            \o (IF uncategorized # None /\ uncategorized > 0
                                THEN <<"Uncategorized">>
                                ELSE <<>>),
                        data |->
                          [i \in 1..Len(spending_data) |-> spending_data[i].total]
                            \o (IF uncategorized # None /\ uncategorized > 0
                                THEN <<uncategorized>>
                                ELSE <<>>)]
  /\ UNCHANGED <<bank_accounts, linked_accounts, categories, transactions, now, inflight>>

\* the response is sent; the server is ready for the next request
Deliver ==
  /\ resp.op # "none"
  /\ resp' = [op |-> "none"]
  /\ UNCHANGED <<bank_accounts, linked_accounts, categories, transactions, now, inflight>>

\* The operations that change the stored data, each for every caller and input.
Writes ==
  \/ Tick
  \/ Idle /\ \E u \in Users : \E auth_token \in AuthTokens :
               handle_api_callback(u, auth_token)
  \/ Idle /\ \E u \in Users : \E names_given \in BOOLEAN :
               bank_connect_new(u, names_given)
  \/ Idle /\ \E u \in Users : \E account_id \in 0..(MaxLinked + 1) :
               bank_sync_account(u, account_id)
  \/ Idle /\ \E u \in Users : sync_all_accounts(u)
  \/ Idle /\ \E u \in Users : \E tx_id \in 1..(MaxTx + 1) :
               \E category_id \in ManualInputs :
                 categorize_manual(u, tx_id, category_id)

DashboardRequest ==
  Idle /\ \E u \in Users : \E req \in Requests :
           dashboard(u, req.account, req.month)

TransactionsRequest ==
  Idle /\ \E u \in Users : \E req \in Requests :
           transactions_page(u, req.account, req.month)

ChartRequest ==
  Idle /\ \E u \in Users : \E req \in Requests :
           spending_by_category(u, req.account, req.month)

\* The whole application.
Next ==
  \/ Writes
  \/ Deliver
  \/ DashboardRequest
  \/ TransactionsRequest
  \/ ChartRequest

Spec == Init /\ [][Next]_vars

\* The application as seen through the dashboard.
NextDashboard ==
  \/ Writes
  \/ Deliver
  \/ DashboardRequest

DashboardSpec == Init /\ [][NextDashboard]_vars

\* The application as seen through the chart API.
NextChart ==
  \/ Writes
  \/ Deliver
  \/ ChartRequest

ChartSpec == Init /\ [][NextChart]_vars

\* Linking accounts and syncing them, month after month.
NextSync ==
  \/ Tick
  \/ Deliver
  \/ Idle /\ \E u \in Users : \E names_given \in BOOLEAN :
               bank_connect_new(u, names_given)
  \/ Idle /\ \E u \in Users : \E account_id \in 0..(MaxLinked + 1) :
               bank_sync_account(u, account_id)

SyncSpec == Init /\ [][NextSync]_vars

(***************************************************************************)
(* Claims about the categorizer (checked under CatSpec).                   *)
(***************************************************************************)
ClaimedOrder ==
  <<"Food & Drink", "Groceries", "Fuel", "Subscriptions", "Utilities",
    "Transport", "Shopping", "Payments", "Rent/EMI">>

\* some keyword listed under the category occurs in the lower-cased text
HasKeywordOf(category_name, description) ==
  \E i \in 1..Len(CATEGORY_KEYWORDS) :
    /\ CATEGORY_KEYWORDS[i].name = category_name
    /\ \E k \in 1..Len(CATEGORY_KEYWORDS[i].keywords) :
         Contains(Lower(description), CATEGORY_KEYWORDS[i].keywords[k])

\* positions, in the claimed order, of the categories that have a keyword in
\* the description and a row in the store
Eligible(description, cats) ==
  { i \in 1..Len(ClaimedOrder) :
      /\ HasKeywordOf(ClaimedOrder[i], description)
      /\ \E c \in cats : c.name = ClaimedOrder[i] }

\* the earliest position of a non-empty set of positions
First(positions) == CHOOSE i \in positions : \A j \in positions : i <= j

\* C1: a call on a transaction with no category assigns the first category,
\* in the declaration order, that has a keyword in the lower-cased
\* description and a row in the store, and returns True; when there is no
\* such category the category stays unset and the call returns False.
C1_FirstMatchWins ==
  (resp.op = "categorize" /\ resp.before = None) =>
    \A t \in transactions :
      t.id = resp.tx_id =>
        LET eligible == Eligible(t.description, categories)
        IN IF eligible = {}
           THEN t.category_id = None /\ resp.ret = FALSE
           ELSE /\ resp.ret = TRUE
                /\ \E c \in categories :
                     /\ c.name = ClaimedOrder[First(eligible)]
                     /\ t.category_id = c.id

\* a description with keywords of two stored categories ('swiggy' and 'rent')
\* was categorized as the earlier one, Food & Drink
C1_Witness ==
  /\ resp.op = "categorize" /\ resp.before = None /\ resp.ret = TRUE
  /\ \E t \in transactions :
       /\ t.id = resp.tx_id
       /\ Eligible(t.description, categories) = {1, 9}
       /\ t.category_id = CategoryByName(categories, "Food & Drink")

\* C2: a call on a transaction whose category is set returns False and
\* leaves the category as it was, whatever the description now is.
C2_StickyAssignment ==
  (resp.op = "categorize" /\ resp.before # None) =>
    /\ resp.ret = FALSE
    /\ \A t \in transactions : t.id = resp.tx_id => t.category_id = resp.before

\* the second call ran on a description that by itself would give another
\* category than the one the first call assigned
C2_Witness ==
  /\ resp.op = "categorize" /\ resp.before # None
  /\ \E t \in transactions :
       /\ t.id = resp.tx_id
       /\ LET eligible == Eligible(t.description, categories)
          IN /\ eligible # {}
             /\ CategoryByName(categories, ClaimedOrder[First(eligible)])
                  # t.category_id

(***************************************************************************)
(* Properties of the account and month resolver, the dashboard, the chart  *)
(* API and the linked-account sync.                                        *)
(***************************************************************************)

\* the two-digit numerals of the calendar months
MonthNumerals ==
  { <<"0","1">>, <<"0","2">>, <<"0","3">>, <<"0","4">>, <<"0","5">>, <<"0","6">>,
    <<"0","7">>, <<"0","8">>, <<"0","9">>, <<"1","0">>, <<"1","1">>, <<"1","2">> }

\* s is a well-formed YYYY-MM string naming a calendar month 01..12
IsYearMonth(s) ==
  /\ Len(s) = 7
  /\ \A i \in 1..4 : s[i] \in Range(Digits)
  /\ s[5] = "-"
  /\ <<s[6], s[7]>> \in MonthNumerals

\* the date of t lies in the calendar month written ym
InMonth(t, ym) == FormatYearMonth(t.date.year, t.date.month) = ym

\* the scope is the combined scope or one account that exists and is u's
OwnedScope(u, account_type, account_id) ==
  \/ account_type = "all"
  \/ /\ account_type = "legacy"
     /\ \E a \in bank_accounts : a.id = account_id /\ a.user_id = u
  \/ /\ account_type = "linked"
     /\ \E a \in linked_accounts : a.id = account_id /\ a.user_id = u

\* the transactions of a scope: all of u's, or those of the one account
ScopeTransactions(u, account_type, account_id) ==
  IF account_type = "all" THEN { t \in transactions : t.user_id = u }
  ELSE IF account_type = "legacy"
  THEN { t \in transactions : t.bank_account_id = account_id }
  ELSE { t \in transactions : t.account_id = account_id }

RECURSIVE Total(_)
Total(rows) ==
  IF rows = {} THEN 0
  ELSE LET t == CHOOSE x \in rows : TRUE IN t.amount + Total(rows \ {t})

\* the transactions of rows assigned to the category called name
AssignedTo(rows, name) ==
  { t \in rows : \E c \in categories : c.id = t.category_id /\ c.name = name }

\* the names of the categories some transaction of rows is assigned to
CategoriesOf(rows) ==
  { c.name : c \in { c \in categories : \E t \in rows : t.category_id = c.id } }

DashboardAnswer == resp.op = "dashboard" /\ resp.resolved

\* C3: the resolver returns a single-account scope (legacy or linked) only
\* when the selector names an account that exists and is owned by the
\* requesting user; every other selector resolves to the combined scope.
C3_SingleScopeOnlyIfOwned ==
  DashboardAnswer /\ resp.account_type \in {"legacy", "linked"}
    => OwnedScope(resp.user, resp.account_type, resp.account_id)

\* C4: the statistics the dashboard returns to a user are computed only from
\* transactions that user owns, whatever selector the user supplied.
C4_OnlyOwnTransactions ==
  DashboardAnswer =>
    LET own == { t \in ScopeTransactions(resp.user, resp.account_type,
                                         resp.account_id) :
                   t.user_id = resp.user /\ InMonth(t, resp.selected_month) }
    IN /\ resp.transaction_count = Cardinality(own)
       /\ resp.total_spending = Total(own)
       /\ resp.top_category \in CategoriesOf(own) \cup {"N/A"}

\* the transactions a dashboard answer is about: those of its scope dated in
\* its selected month
Matching ==
  { t \in ScopeTransactions(resp.user, resp.account_type, resp.account_id) :
      InMonth(t, resp.selected_month) }

\* the dashboard answered for the combined scope or an account of the user,
\* and for a calendar month
OwnedMonthAnswer ==
  /\ DashboardAnswer
  /\ OwnedScope(resp.user, resp.account_type, resp.account_id)
  /\ IsYearMonth(resp.selected_month)

\* C5: for the combined scope or an owned account and a calendar month,
\* total_spending is the sum of amount over exactly the scope's transactions
\* dated in that month (0 when there are none, never null) and
\* transaction_count is their number, uncategorized ones included.
C5_TotalAndCount ==
  OwnedMonthAnswer =>
    /\ resp.total_spending = Total(Matching)
    /\ resp.total_spending # None
    /\ resp.transaction_count = Cardinality(Matching)

\* two months hold transactions of the scope and only one of them is counted,
\* one of the counted transactions being uncategorized
C5_Witness ==
  /\ OwnedMonthAnswer
  /\ resp.account_type # "all"
  /\ resp.transaction_count = 1
  /\ resp.total_spending > 0
  /\ Cardinality(ScopeTransactions(resp.user, resp.account_type,
                                   resp.account_id)) = 2
  /\ \E t \in Matching : t.category_id = None

\* the month a chart request asks for: the current month when none is given
ChartMonth == IF resp.month_param = <<>> THEN CurrentMonth ELSE resp.month_param

\* the scope a chart request names, read off its selector
ChartScope == parse_account_param(resp.account_param)

\* the transactions a chart answer is about: those of the scope in the month,
\* none when the scope is an account that is not the user's
ChartMatching ==
  IF OwnedScope(resp.user, ChartScope.account_type, ChartScope.account_id)
  THEN { t \in ScopeTransactions(resp.user, ChartScope.account_type,
                                 ChartScope.account_id) : InMonth(t, ChartMonth) }
  ELSE {}

ChartAnswer == resp.op = "chart" /\ IsYearMonth(ChartMonth)

\* C6: the chart API returns one (label, amount) entry per category with a
\* matching transaction assigned to it, the amount being the sum of those
\* transactions; a positive sum of the matching transactions without a
\* category is added as the last entry, labelled 'Uncategorized', and no
\* entry is added for them when there are none.
C6_CategoryBreakdown ==
  ChartAnswer =>
    LET names == CategoriesOf(ChartMatching)
        n == Cardinality(names)
        rest == Total({ t \in ChartMatching : t.category_id = None })
    IN /\ Len(resp.labels) = Len(resp.data)
       /\ Len(resp.labels) = n + (IF rest > 0 THEN 1 ELSE 0)
       /\ { resp.labels[i] : i \in 1..n } = names
       /\ \A i \in 1..n :
            resp.data[i] = Total(AssignedTo(ChartMatching, resp.labels[i]))
       /\ rest > 0 =>
            /\ resp.labels[n + 1] = "Uncategorized"
            /\ resp.data[n + 1] = rest

\* a chart with a category entry followed by the 'Uncategorized' entry
C6_Witness ==
  /\ ChartAnswer
  /\ Len(resp.labels) = 2
  /\ resp.labels[1] # "Uncategorized"
  /\ resp.labels[2] = "Uncategorized"
  /\ \E t \in ChartMatching : t.category_id = None

\* C7: the dashboard's top category is a category name whose summed amount
\* over the matching categorized transactions is maximal, and it is 'N/A'
\* exactly when no matching transaction has a category.
C7_TopCategory ==
  OwnedMonthAnswer =>
    /\ resp.top_category = "N/A" <=> CategoriesOf(Matching) = {}
    /\ resp.top_category # "N/A" =>
         /\ resp.top_category \in CategoriesOf(Matching)
         /\ \A other \in CategoriesOf(Matching) :
              Total(AssignedTo(Matching, other))
                <= Total(AssignedTo(Matching, resp.top_category))

\* two categories with different sums compete and the larger one is on top
C7_Witness ==
  /\ OwnedMonthAnswer
  /\ Cardinality(CategoriesOf(Matching)) = 2
  /\ \E other \in CategoriesOf(Matching) :
       Total(AssignedTo(Matching, other))
         < Total(AssignedTo(Matching, resp.top_category))

\* the year and month a month string a-b stands for, as numbers
MonthNumber(s) ==
  LET parts == Split(s, "-", <<>>)
  IN ParseInt(parts[1]).value * 12 + ParseInt(parts[2]).value

\* C8: the available-months list has no repeated entry, is sorted most recent
\* month first, contains the selected month, and apart from it holds exactly
\* the months of the transactions of the resolved scope; for a scope without
\* transactions it is the one-element list holding the selected month.
C8_AvailableMonths ==
  DashboardAnswer =>
    LET months == resp.all_months
        used == { FormatYearMonth(t.date.year, t.date.month) :
                    t \in ScopeTransactions(resp.user, resp.account_type,
                                            resp.account_id) }
    IN /\ \A i, j \in 1..Len(months) : i < j => months[i] # months[j]
       /\ \A i, j \in 1..Len(months) :
            i < j => MonthNumber(months[i]) > MonthNumber(months[j])
       /\ Range(months) = used \cup {resp.selected_month}
       /\ used = {} => months = <<resp.selected_month>>

\* C9: the normalized month is the current calendar month when the month
\* parameter is absent or is no parseable YYYY-MM calendar month, and the
\* supplied value otherwise; it is always a well-formed YYYY-MM string.
C9_NormalizedMonth ==
  DashboardAnswer =>
    /\ resp.selected_month =
         (IF IsYearMonth(resp.month_param) THEN resp.month_param
          ELSE CurrentMonth)
    /\ IsYearMonth(resp.selected_month)

\* the stored transactions of linked account a that repeat the candidate c
StoredAs(a, c) ==
  { t \in transactions : /\ t.account_id = a
                         /\ FormatDate(t.date) = c.date
                         /\ t.description = c.description
                         /\ t.amount = c.amount }

\* C10: after any sequence of bank_sync_account calls for a linked account,
\* the account holds exactly one stored transaction for each distinct (date,
\* description, amount) the feed supplied, however often it was supplied.
C10_OneRowPerCandidate ==
  /\ \A t1, t2 \in transactions :
       /\ t1.account_id # None
       /\ t1.account_id = t2.account_id
       /\ t1.date = t2.date
       /\ t1.description = t2.description
       /\ t1.amount = t2.amount
       => t1 = t2
  /\ resp.op = "sync" /\ resp.status = 200 =>
       \A i \in 1..Len(resp.feed) :
         Cardinality(StoredAs(resp.account_id, resp.feed[i])) = 1

\* one call supplied the same candidate twice and one row was stored for it
C10_Witness ==
  /\ resp.op = "sync" /\ resp.status = 200
  /\ Len(resp.feed) = 2
  /\ resp.feed[1] = resp.feed[2]
  /\ resp.new_transactions = 1
  /\ Cardinality(StoredAs(resp.account_id, resp.feed[1])) = 1

(***************************************************************************)
(* Ingestion through both sync paths.                                      *)
(***************************************************************************)
\* Linking accounts of both kinds and syncing them, month after month.
NextIngest ==
  \/ Tick
  \/ Deliver
  \/ Idle /\ \E u \in Users : \E auth_token \in AuthTokens :
               handle_api_callback(u, auth_token)
  \/ Idle /\ \E u \in Users : \E names_given \in BOOLEAN :
               bank_connect_new(u, names_given)
  \/ Idle /\ \E u \in Users : \E account_id \in 0..(MaxLinked + 1) :
               bank_sync_account(u, account_id)
  \/ Idle /\ \E u \in Users : sync_all_accounts(u)

IngestSpec == Init /\ [][NextIngest]_vars

\* the stored transactions of legacy account a that repeat the candidate c
StoredLegacyAs(a, c) ==
  { t \in transactions : /\ t.bank_account_id = a
                         /\ FormatDate(t.date) = c.date
                         /\ t.description = c.description
                         /\ t.amount = c.amount }

\* C11: a candidate that differs from every stored transaction of the
\* account in date, description or amount is stored as a new transaction, on
\* both sync paths; so once a sync has succeeded, every candidate it was
\* given is among the account's stored transactions.
C11_DifferentCandidateStored ==
  /\ resp.op = "sync" /\ resp.status = 200 =>
       \A i \in 1..Len(resp.feed) : StoredAs(resp.account_id, resp.feed[i]) # {}
  /\ resp.op = "sync_all" /\ resp.status = "success" =>
       \A a \in DOMAIN resp.feeds : \A i \in 1..Len(resp.feeds[a]) :
         StoredLegacyAs(a, resp.feeds[a][i]) # {}

(***************************************************************************)
(* Manual categorization of synced transactions.                           *)
(***************************************************************************)
\* every kind of category_id a request body may carry, the integers 0 and 1
\* included
ManualBodies ==
  ManualInputs \cup { [kind |-> "int", str |-> <<>>, int |-> 0],
                      [kind |-> "int", str |-> <<>>, int |-> 1] }

NextManual ==
  \/ Deliver
  \/ Idle /\ \E u \in Users : \E names_given \in BOOLEAN :
               bank_connect_new(u, names_given)
  \/ Idle /\ \E u \in Users : \E account_id \in 0..(MaxLinked + 1) :
               bank_sync_account(u, account_id)
  \/ Idle /\ \E u \in Users : \E tx_id \in 1..(MaxTx + 1) :
               \E category_id \in ManualBodies :
                 categorize_manual(u, tx_id, category_id)

ManualSpec == Init /\ [][NextManual]_vars

\* C12: once a transaction's category is set it keeps that category until a
\* caller clears it: no operation takes a transaction directly from one
\* category to a different one.
C12_NoDirectRecategorization ==
  [][\A t \in transactions : \A s \in transactions' :
       s.id = t.id /\ t.category_id # None
         => s.category_id \in {t.category_id, None}]_vars

\* C13: every stored transaction's category reference is null or the id of
\* an existing Category, whatever body the manual-categorize endpoint gets.
C13_CategoryExists ==
  \A t \in transactions :
    t.category_id = None \/ \E c \in categories : c.id = t.category_id

(***************************************************************************)
(* Account management, demo data, and the migration script.                *)
(***************************************************************************)
\* the row with this id, whoever owns it
OwnedBy_existing(rows, id, u) == Get(rows, id)

\* "not account or account.user_id != current_user.id" is false exactly for
\* the rows this gives: the row with this id when the caller owns it
OwnedBy(rows, id, u) == { a \in Get(rows, id) : a.user_id = u }

\* POST /api/linked-accounts/<account_id>/delete
delete_linked_account(u, account_id) ==
  /\ IF OwnedBy(linked_accounts, account_id, u) = {}
     THEN /\ resp' = [op |-> "delete_linked", user |-> u,
                      account_id |-> account_id, status |-> 403]
          /\ UNCHANGED <<transactions, linked_accounts>>
     ELSE /\ transactions' = { t \in transactions : t.account_id # account_id }
          /\ linked_accounts' = linked_accounts \ Get(linked_accounts, account_id)
          /\ resp' = [op |-> "delete_linked", user |-> u,
                      account_id |-> account_id, status |-> 200]
  /\ UNCHANGED <<bank_accounts, categories, now, inflight>>

\* the account activated, the user's other accounts left as they are
set_active_account_keeping(u, account_id) ==
  { IF a.user_id = u /\ a.id = account_id THEN [a EXCEPT !.is_active = TRUE]
    ELSE a : a \in bank_accounts }

\* services.set_active_account: the bank_accounts table it commits; without
\* an account of the user it commits nothing
set_active_account(u, account_id) ==
  IF OwnedBy(bank_accounts, account_id, u) = {} THEN bank_accounts
  ELSE { IF a.user_id = u THEN [a EXCEPT !.is_active = (a.id = account_id)]
         ELSE a : a \in bank_accounts }

\* POST /api/accounts/<account_id>/set-active
set_account_active(u, account_id) ==
  /\ IF OwnedBy(bank_accounts, account_id, u) = {}
     THEN /\ resp' = [op |-> "set_active", user |-> u,
                      account_id |-> account_id, status |-> 403]
          /\ UNCHANGED bank_accounts
     ELSE /\ bank_accounts' = set_active_account(u, account_id)
          /\ resp' = [op |-> "set_active", user |-> u,
                      account_id |-> account_id, status |-> 200]
  /\ UNCHANGED <<linked_accounts, categories, transactions, now, inflight>>

\* the account_name values a rename request may carry
AccountNames == { <<" ">>, <<" ","H","o","m","e">> }

\* POST /api/accounts/<account_id>/rename
rename_account(u, account_id, account_name) ==
  /\ IF OwnedBy(bank_accounts, account_id, u) = {}
     THEN /\ resp' = [op |-> "rename", user |-> u,
                      account_id |-> account_id, status |-> 403]
          /\ UNCHANGED bank_accounts
     ELSE LET new_name == Strip(account_name)
          IN IF new_name = <<>>
             THEN /\ resp' = [op |-> "rename", user |-> u,
                              account_id |-> account_id, status |-> 400]
                  /\ UNCHANGED bank_accounts
             ELSE /\ bank_accounts' =
                       { IF a.id = account_id
                         THEN [a EXCEPT !.account_name = new_name] ELSE a :
                           a \in bank_accounts }
                  /\ resp' = [op |-> "rename", user |-> u,
                              account_id |-> account_id, status |-> 200]
  /\ UNCHANGED <<linked_accounts, categories, transactions, now, inflight>>

\* POST /api/accounts/<account_id>/toggle
toggle_account_active(u, account_id) ==
  /\ IF OwnedBy(bank_accounts, account_id, u) = {}
     THEN /\ resp' = [op |-> "toggle", user |-> u,
                      account_id |-> account_id, status |-> 403]
          /\ UNCHANGED bank_accounts
     ELSE /\ bank_accounts' =
               { IF a.id = account_id
                 THEN [a EXCEPT !.is_active = ~a.is_active] ELSE a :
                   a \in bank_accounts }
          /\ resp' = [op |-> "toggle", user |-> u,
                      account_id |-> account_id, status |-> 200]
  /\ UNCHANGED <<linked_accounts, categories, transactions, now, inflight>>

\* the ids of a set of rows as a list, descending or ascending
RECURSIVE OrderedIds(_, _)
OrderedIds(rows, descending) ==
  IF rows = {} THEN <<>>
  ELSE LET first == CHOOSE a \in rows : \A b \in rows :
                      IF descending THEN a.id >= b.id ELSE a.id <= b.id
       IN <<first.id>> \o OrderedIds(rows \ {first}, descending)

\* all_accounts of generate_demo_data: the legacy accounts, newest first,
\* then the linked accounts, oldest first
all_accounts(u) ==
  [i \in 1..Cardinality(get_user_accounts(u)) |->
     [account_type |-> "legacy",
      id |-> OrderedIds(get_user_accounts(u), TRUE)[i]]]
  \o
  [i \in 1..Cardinality(get_linked_accounts(u)) |->
     [account_type |-> "linked",
      id |-> OrderedIds(get_linked_accounts(u), FALSE)[i]]]

\* the month month_offset months before the current one
DemoMonth(month_offset) ==
  IF now.month - month_offset <= 0
  THEN [year |-> now.year - 1, month |-> now.month - month_offset + 12]
  ELSE [year |-> now.year, month |-> now.month - month_offset]

\* the (account, month) pairs the loops of generate_demo_data go through
RECURSIVE DemoJobs(_)
DemoJobs(accounts) ==
  IF accounts = <<>> THEN <<>>
  ELSE [month_offset \in 1..3 |->
          [account |-> accounts[1], period |-> DemoMonth(month_offset - 1)]]
       \o DemoJobs(Tail(accounts))

\* the innermost loop of generate_demo_data: every candidate of the
\* statement becomes a row of the account
RECURSIVE IngestDemo(_, _, _, _)
IngestDemo(feed, u, account, txs) ==
  IF feed = <<>> THEN txs
  ELSE LET tx_data == feed[1]
           new_transaction ==
             [id |-> NextId(txs), user_id |-> u,
              bank_account_id |->
                IF account.account_type = "legacy" THEN account.id ELSE None,
              account_id |->
                IF account.account_type = "legacy" THEN None ELSE account.id,
              category_id |-> None, date |-> ParseDate(tx_data.date),
              description |-> tx_data.description,
              amount |-> Abs(tx_data.amount), transaction_type |-> "debit"]
       IN IngestDemo(Tail(feed), u, account,
            txs \cup {categorize_transaction(new_transaction, categories).tx})

\* the tables generate_demo_data may leave, one per choice of the generated
\* statements, among those of at most cap rows: every candidate adds a row
\* and every later statement adds at least one
RECURSIVE DemoOutcomesWithin(_, _, _, _)
DemoOutcomesWithin(jobs, u, txs, cap) ==
  IF jobs = <<>> THEN {txs}
  ELSE UNION
         { DemoOutcomesWithin(Tail(jobs), u,
                              IngestDemo(feed, u, jobs[1].account, txs), cap) :
             feed \in
               { f \in generate_monthly_statement(
                         jobs[1].period.year, jobs[1].period.month) :
                   Cardinality(txs) + Len(f) + Len(jobs) - 1 <= cap } }

DemoOutcomes(jobs, u, txs) == DemoOutcomesWithin(jobs, u, txs, MaxDemoTx)

\* POST /api/demo/generate-data, the table it leaves having at most cap rows
generate_demo_data_within(u, cap) ==
  /\ IF all_accounts(u) = <<>>
     THEN /\ resp' = [op |-> "demo", user |-> u, status |-> 400,
                      transactions |-> 0]
          /\ UNCHANGED transactions
     ELSE LET kept == { t \in transactions : t.user_id # u }
          IN \E result \in
                 DemoOutcomesWithin(DemoJobs(all_accounts(u)), u, kept, cap) :
               /\ transactions' = result
               /\ resp' = [op |-> "demo", user |-> u, status |-> 200,
                           transactions |->
                             Cardinality(result) - Cardinality(kept)]
  /\ UNCHANGED <<bank_accounts, linked_accounts, categories, now, inflight>>

\* POST /api/demo/generate-data
generate_demo_data(u) == generate_demo_data_within(u, MaxDemoTx)

\* users.aa_token, the token column of the single-account version: user 1
\* registered under that version and still has one, user 2 has none
user_aa_token(u) == IF u = 1 THEN "token-old" ELSE ""

\* the count that never finds an account
existing_accounts_none(u) == 0

\* BankAccount.query.filter_by(user_id=user.id).count()
existing_accounts(u) == Cardinality(get_user_accounts(u))

\* migrate_to_multi_account.migrate_user_to_multi_account(user); it creates
\* at most one account for each user that has a token
migrate_user_to_multi_account(u) ==
  /\ IF existing_accounts(u) > 0 \/ user_aa_token(u) = ""
     THEN /\ resp' = [op |-> "migrate", user |-> u, ret |-> FALSE]
          /\ UNCHANGED <<bank_accounts, transactions>>
     ELSE /\ LET primary_account ==
                   [id |-> NextId(bank_accounts), user_id |-> u,
                    account_name |-> AccountName(0),
                    aa_token |-> user_aa_token(u), is_active |-> TRUE]
             IN /\ bank_accounts' = bank_accounts \cup {primary_account}
                /\ transactions' =
                     { IF t.user_id = u /\ t.bank_account_id = None
                       THEN [t EXCEPT !.bank_account_id = primary_account.id]
                       ELSE t : t \in transactions }
          /\ resp' = [op |-> "migrate", user |-> u, ret |-> TRUE]
  /\ UNCHANGED <<linked_accounts, categories, now, inflight>>

\* Linking, syncing and deleting accounts, demo data, manual categories,
\* and the migration script run at any moment.
NextMigration ==
  \/ Deliver
  \/ Idle /\ \E u \in Users : \E auth_token \in AuthTokens :
               handle_api_callback(u, auth_token)
  \/ Idle /\ \E u \in Users : \E names_given \in BOOLEAN :
               bank_connect_new(u, names_given)
  \/ Idle /\ \E u \in Users : \E account_id \in 0..(MaxLinked + 1) :
               bank_sync_account(u, account_id)
  \/ Idle /\ \E u \in Users : \E tx_id \in 1..(MaxTx + 1) :
               \E category_id \in ManualInputs :
                 categorize_manual(u, tx_id, category_id)
  \/ Idle /\ \E u \in Users : \E account_id \in 1..(MaxLinked + 1) :
               delete_linked_account(u, account_id)
  \/ Idle /\ \E u \in Users : generate_demo_data(u)
  \/ Idle /\ \E u \in Users : migrate_user_to_multi_account(u)

MigrationSpec == Init /\ [][NextMigration]_vars

\* Every operation a user invokes that changes stored data, for every user
\* and every target.
NextOwnership ==
  \/ Deliver
  \/ Idle /\ \E u \in Users : \E auth_token \in AuthTokens :
               handle_api_callback(u, auth_token)
  \/ Idle /\ \E u \in Users : \E names_given \in BOOLEAN :
               bank_connect_new(u, names_given)
  \/ Idle /\ \E u \in Users : \E account_id \in 0..(MaxLinked + 1) :
               bank_sync_account(u, account_id)
  \/ Idle /\ \E u \in Users : \E tx_id \in 1..(MaxTx + 1) :
               \E category_id \in ManualInputs :
                 categorize_manual(u, tx_id, category_id)
  \/ Idle /\ \E u \in Users : \E account_id \in 1..(MaxLinked + 1) :
               delete_linked_account(u, account_id)
  \/ Idle /\ \E u \in Users : \E account_id \in 1..(MaxLegacy + 1) :
               set_account_active(u, account_id)
  \/ Idle /\ \E u \in Users : \E account_id \in 1..(MaxLegacy + 1) :
               \E account_name \in AccountNames :
                 rename_account(u, account_id, account_name)
  \/ Idle /\ \E u \in Users : \E account_id \in 1..(MaxLegacy + 1) :
               toggle_account_active(u, account_id)
  \/ Idle /\ \E u \in Users : generate_demo_data(u)

OwnershipSpec == Init /\ [][NextOwnership]_vars

\* C14: no stored transaction has both its legacy-account reference and its
\* linked-account reference set, after any sequence of link, sync, demo
\* generation, migration and account deletion.
C14_OneAccountReference ==
  \A t \in transactions : ~(t.bank_account_id # None /\ t.account_id # None)

\* the operations a user invokes that change stored data
MutatingOps ==
  {"set_active", "rename", "toggle", "delete_linked", "sync",
   "categorize_manual", "demo"}

\* the rows of a table that users other than u own
OthersRows(rows, u) == { r \in rows : r.user_id # u }

C19_DeleteRemovesOnlyItsTransactions ==
  [][(Idle /\ resp'.op = "delete_linked" /\ resp'.status = 200) =>
       LET id == resp'.account_id
       IN /\ linked_accounts' = { a \in linked_accounts : a.id # id }
          /\ transactions' = { t \in transactions : t.account_id # id }
          /\ bank_accounts' = bank_accounts
          /\ categories' = categories
          /\ \A t \in transactions :
               (t.bank_account_id # None \/ t.account_id \notin {None, id})
                 => t \in transactions']_vars

\* C20: no operation changes the owner, account references, date,
\* description, amount or kind of a stored transaction; only its category
\* may change.  (Demo generation deletes the user's transactions and stores
\* new ones, whose ids may repeat the deleted ones; its steps are left out.)
C20_StoredTransactionImmutable ==
  [][resp'.op # "demo" =>
       \A t \in transactions : \A s \in transactions' :
         s.id = t.id => s = [t EXCEPT !.category_id = s.category_id]]_vars

(***************************************************************************)
(* The dashboard beside other requests.  The server handles requests in    *)
(* threads; each query of the dashboard reads the table as committed at    *)
(* the moment it runs, and other handlers commit between its queries.      *)
(***************************************************************************)
\* the query strings of the dashboard requests sent beside other requests
ConcurrentRequests == { [account |-> <<"a","l","l">>, month |-> <<>>] }

\* GET /, up to the resolution of account and month (app.py 169-192)
dashboard_resolve(u, account_param, month_param) ==
  /\ inflight.stage = "none"
  /\ get_user_accounts(u) # {} \/ get_linked_accounts(u) # {}
  /\ LET sel == get_selected_account_and_month(u, account_param, month_param)
         ym == FilterMonth(sel.selected_month)
     IN inflight' = [stage |-> "total", user |-> u,
                     account_id |-> sel.account_id,
                     account_type |-> sel.account_type,
                     year |-> ym.year, month |-> ym.month,
                     total_spending |-> 0, transaction_count |-> 0]
  /\ UNCHANGED <<bank_accounts, linked_accounts, categories, transactions, now,
               resp>>

\* the rows the filter of the request in flight selects now
InflightRows ==
  MonthRows(ScopeRows(inflight.user, inflight.account_type, inflight.account_id),
            inflight.year, inflight.month)

\* the first query: func.sum(Transaction.amount) ... .scalar() or 0
dashboard_total ==
  /\ inflight.stage = "total"
  /\ inflight' = [inflight EXCEPT !.stage = "count",
                                  !.total_spending = OrZero(func_sum(InflightRows))]
  /\ UNCHANGED <<bank_accounts, linked_accounts, categories, transactions, now,
               resp>>

\* the second query: Transaction.query.filter(...).count()
dashboard_count ==
  /\ inflight.stage = "count"
  /\ inflight' = [inflight EXCEPT !.stage = "top",
                                  !.transaction_count = Cardinality(InflightRows)]
  /\ UNCHANGED <<bank_accounts, linked_accounts, categories, transactions, now,
               resp>>

\* the third query, the top category, and the rendering of the page
dashboard_top ==
  /\ inflight.stage = "top"
  /\ \E order \in OrderBySumDesc(GroupByCategory(InflightRows)) :
       resp' = [op |-> "dashboard_threaded", user |-> inflight.user,
                total_spending |-> inflight.total_spending,
                transaction_count |-> inflight.transaction_count,
                top_category |-> IF order = <<>> THEN "N/A" ELSE order[1].name,
                top_rows |-> InflightRows]
  /\ inflight' = NoRequest
  /\ UNCHANGED <<bank_accounts, linked_accounts, categories, transactions, now>>

\* the category_id values of the manual categorizations sent meanwhile
ConcurrentBodies ==
  { [kind |-> "str", str |-> <<>>, int |-> 0],
    [kind |-> "str", str |-> <<"1","0">>, int |-> 0] }

\* One dashboard request query by query, beside the requests that commit.
NextConcurrent ==
  \/ Deliver
  \/ Idle /\ \E u \in Users : bank_connect_new(u, TRUE)
  \/ Idle /\ \E u \in Users : \E account_id \in 1..MaxLinked :
               bank_sync_account(u, account_id)
  \/ Idle /\ \E u \in Users : \E tx_id \in 1..MaxTx :
               \E category_id \in ConcurrentBodies :
                 categorize_manual(u, tx_id, category_id)
  \/ Idle /\ \E u \in Users : \E account_id \in 1..MaxLinked :
               delete_linked_account(u, account_id)
  \/ Idle /\ \E u \in Users : generate_demo_data(u)
  \/ Idle /\ \E u \in Users : \E r \in ConcurrentRequests :
               dashboard_resolve(u, r.account, r.month)
  \/ dashboard_total
  \/ dashboard_count
  \/ Idle /\ dashboard_top

ConcurrentSpec == Init /\ [][NextConcurrent]_vars

\* C16: the total_spending, transaction_count and top category of one
\* dashboard response are computed from the same set of transactions, also
\* when other requests commit between the dashboard's queries: the total
\* and the count are those of the rows the top category was taken from.
C16_OneTransactionSet ==
  resp.op = "dashboard_threaded" =>
    /\ resp.total_spending = OrZero(func_sum(resp.top_rows))
    /\ resp.transaction_count = Cardinality(resp.top_rows)

(***************************************************************************)
(* Faults of the store: a query or a write that raises inside a handler.   *)
(***************************************************************************)
\* the queries of one dashboard request, in the order they run
DashboardQueries == <<"accounts", "months", "total", "count", "top">>

\* the dashboard's handler without its fallback: the page keeps the values
\* computed before the fault
dashboard_except_partial(computed) == computed

\* the except branch of dashboard: the values it renders, whatever was
\* computed before the fault
dashboard_except(computed) ==
  [total_spending |-> 0, transaction_count |-> 0, top_category |-> "N/A",
   raised |-> FALSE]

\* what dashboard has computed when the query numbered failing raises
DashboardComputed(u, account_param, month_param, failing) ==
  IF failing <= 3
  THEN [total_spending |-> None, transaction_count |-> None,
        top_category |-> "", raised |-> TRUE]
  ELSE LET sel == get_selected_account_and_month(u, account_param, month_param)
           ym == FilterMonth(sel.selected_month)
           rows == MonthRows(ScopeRows(u, sel.account_type, sel.account_id),
                             ym.year, ym.month)
       IN [total_spending |-> OrZero(func_sum(rows)),
           transaction_count |-> IF failing > 4 THEN Cardinality(rows) ELSE None,
           top_category |-> "", raised |-> TRUE]

\* GET / when the query numbered failing raises
dashboard_faulting(u, account_param, month_param, failing) ==
  /\ failing \in 1..Len(DashboardQueries)
  /\ failing > 1 => (get_user_accounts(u) # {} \/ get_linked_accounts(u) # {})
  /\ resp' = [op |-> "dashboard_fault", user |-> u,
              failing |-> DashboardQueries[failing],
              computed |->
                DashboardComputed(u, account_param, month_param, failing)]
             @@ dashboard_except(
                  DashboardComputed(u, account_param, month_param, failing))
  /\ UNCHANGED <<bank_accounts, linked_accounts, categories, transactions, now,
               inflight>>

\* the queries of one chart request, in the order they run; the account
\* lookup is made for a legacy or linked scope only
ChartQueries == <<"account", "grouped", "uncategorized">>

\* the except branch of spending_by_category: the body and status it returns
spending_by_category_except(computed) ==
  [labels |-> <<>>, data |-> <<>>, status |-> 200, raised |-> FALSE]

\* GET /api/spending-by-category when the query numbered failing raises
spending_by_category_faulting(u, account_param, month_param, failing) ==
  /\ failing \in 1..Len(ChartQueries)
  /\ LET parsed == parse_account_param(account_param)
         owned == IF parsed.account_type = "legacy"
                  THEN OwnedBy(bank_accounts, parsed.account_id, u)
                  ELSE OwnedBy(linked_accounts, parsed.account_id, u)
         given == IF month_param = <<>> THEN CurrentMonth ELSE month_param
         ym == FilterMonth(given)
         rows == MonthRows(ScopeRows(u, parsed.account_type, parsed.account_id),
                           ym.year, ym.month)
         computed ==
           [groups |-> IF failing > 2 THEN GroupByCategory(rows) ELSE {},
            raised |-> TRUE]
         returned == spending_by_category_except(computed)
     IN /\ failing = 1 => parsed.account_type # "all"
        /\ (failing > 1 /\ parsed.account_type # "all") => owned # {}
        /\ resp' = [op |-> "chart_fault", user |-> u,
                    failing |-> ChartQueries[failing],
                    computed |-> computed,
                    labels |-> returned.labels, data |-> returned.data,
                    status |-> returned.status, raised |-> returned.raised]
  /\ UNCHANGED <<bank_accounts, linked_accounts, categories, transactions, now,
               inflight>>

\* the places where a write of bank_sync_account may raise
SyncFaults == {"flush", "categorize", "commit"}

\* the session keeps what it flushed
rollback_keeping(committed, pending) == pending

\* db.session.rollback(): the tables are those of the last commit
rollback(committed, pending) == committed

\* POST /api/bank/sync for an account of the caller, when the write at
\* candidate k raises (for "commit", after the whole statement)
bank_sync_account_faulting(u, account_id, fault, k) ==
  /\ OwnedBy(linked_accounts, account_id, u) # {}
  /\ \E feed \in generate_monthly_statement(now.year, now.month) :
       /\ fault = "commit" => k = Len(feed)
       /\ k \in 1..Len(feed)
       /\ LET before == IngestLinked(SubSeq(feed, 1, k - 1), u, account_id,
                                     transactions)
              tx_data == feed[k]
              new_transaction ==
                [id |-> NextId(before), user_id |-> u, bank_account_id |-> None,
                 account_id |-> account_id, category_id |-> None,
                 date |-> ParseDate(tx_data.date),
                 description |-> tx_data.description,
                 amount |-> Abs(tx_data.amount), transaction_type |-> "debit"]
              flushed ==
                IF fault = "flush" THEN before
                ELSE IF fault = "categorize" THEN before \cup {new_transaction}
                ELSE IngestLinked(feed, u, account_id, transactions)
              synced ==
                { IF a.id = account_id /\ fault = "commit"
                  THEN [a EXCEPT !.last_synced = UtcNow] ELSE a :
                    a \in linked_accounts }
              pending == [transactions |-> flushed, linked_accounts |-> synced]
              committed == [transactions |-> transactions,
                            linked_accounts |-> linked_accounts]
              restored == rollback(committed, pending)
          IN /\ fault # "commit" =>
                  ExistingLinked(before, account_id, ParseDate(tx_data.date),
                                 tx_data) = {}
             /\ Cardinality(flushed) <= MaxTx
             /\ transactions' = restored.transactions
             /\ linked_accounts' = restored.linked_accounts
             /\ resp' = [op |-> "sync_fault", user |-> u,
                         account_id |-> account_id, status |-> 500,
                         fault |-> fault,
                         flushed |-> Cardinality(flushed \ transactions)]
  /\ UNCHANGED <<bank_accounts, categories, now, inflight>>

\* Linking and syncing accounts, with requests during which the store fails.
NextFault ==
  \/ Deliver
  \/ Idle /\ \E u \in Users : \E auth_token \in AuthTokens :
               handle_api_callback(u, auth_token)
  \/ Idle /\ \E u \in Users : \E names_given \in BOOLEAN :
               bank_connect_new(u, names_given)
  \/ Idle /\ \E u \in Users : \E account_id \in 0..(MaxLinked + 1) :
               bank_sync_account(u, account_id)
  \/ Idle /\ \E u \in Users : \E r \in Requests :
               \E failing \in 1..Len(DashboardQueries) :
                 dashboard_faulting(u, r.account, r.month, failing)
  \/ Idle /\ \E u \in Users : \E r \in Requests :
               \E failing \in 1..Len(ChartQueries) :
                 spending_by_category_faulting(u, r.account, r.month, failing)
  \/ Idle /\ \E u \in Users : \E account_id \in 1..MaxLinked :
               \E fault \in SyncFaults : \E k \in 1..MaxFeed :
                 bank_sync_account_faulting(u, account_id, fault, k)

FaultSpec == Init /\ [][NextFault]_vars

\* C17: when a query fails during aggregation the chart API returns no
\* labels and no data with a success status, the dashboard renders total 0,
\* count 0 and top category 'N/A', and neither lets the fault reach its
\* caller.
C17_FaultGivesEmptyResult ==
  /\ resp.op = "dashboard_fault" =>
       /\ resp.total_spending = 0 /\ resp.transaction_count = 0
       /\ resp.top_category = "N/A" /\ ~resp.raised
  /\ resp.op = "chart_fault" =>
       /\ resp.labels = <<>> /\ resp.data = <<>>
       /\ resp.status = 200 /\ ~resp.raised

\* the dashboard's count query failed after its total query had found a
\* positive total
C17_Witness ==
  /\ resp.op = "dashboard_fault" /\ resp.failing = "count"
  /\ resp.computed.total_spending > 0
  /\ resp.total_spending = 0

\* C18: when bank_sync_account fails after it started storing candidates, on
\* a flush, during categorization or on the commit, the stored transactions,
\* their categories and the account's last_synced are what they were before
\* the call, and the caller gets an error.
C18_FailedSyncChangesNothing ==
  [][(Idle /\ resp'.op = "sync_fault") =>
       /\ transactions' = transactions
       /\ linked_accounts' = linked_accounts
       /\ resp'.status = 500]_vars

\* a sync failed on its commit after it had flushed new rows, and none of
\* them is stored
C18_Witness ==
  /\ resp.op = "sync_fault" /\ resp.fault = "commit" /\ resp.flushed > 0
  /\ \A t \in transactions : t.account_id # resp.account_id

(***************************************************************************)
(* Application startup: the categories table.                              *)
(***************************************************************************)
\* the check that never finds the name
CategoryExists_never(cats, category_name) == FALSE

\* Category.query.filter_by(name=category_name).first() is not None
CategoryExists(cats, category_name) == \E c \in cats : c.name = category_name

\* the loop of initialize_categories over default_categories
RECURSIVE AddMissingCategories(_, _)
AddMissingCategories(names, cats) ==
  IF names = <<>> THEN cats
  ELSE AddMissingCategories(Tail(names),
         IF CategoryExists(cats, names[1]) THEN cats
         ELSE cats \cup {[id |-> NextId(cats), name |-> names[1]]})

\* services.initialize_categories(), run each time the application starts
initialize_categories ==
  /\ categories' = AddMissingCategories(DefaultCategoryNames, categories)
  /\ resp' = [op |-> "initialize_categories",
              created |-> Cardinality(categories') - Cardinality(categories)]
  /\ UNCHANGED <<bank_accounts, linked_accounts, transactions, now, inflight>>

\* a new database: db.create_all() has made the tables, all of them empty
InitStartup ==
  /\ bank_accounts = {}
  /\ linked_accounts = {}
  /\ categories = {}
  /\ transactions = {}
  /\ now = StartNow
  /\ resp = [op |-> "none"]
  /\ inflight = NoRequest

\* the application has started at least once and serves requests
Started == categories # {}

\* The application started, and restarted, on a new database; between the
\* starts it links and syncs accounts, categorizes and deletes.
NextStartup ==
  \/ Deliver
  \/ Idle /\ initialize_categories
  \/ Idle /\ Started /\ \E u \in Users : \E names_given \in BOOLEAN :
               bank_connect_new(u, names_given)
  \/ Idle /\ Started /\ \E u \in Users : \E account_id \in 0..(MaxLinked + 1) :
               bank_sync_account(u, account_id)
  \/ Idle /\ Started /\ \E u \in Users : \E tx_id \in 1..(MaxTx + 1) :
               \E category_id \in ManualBodies :
                 categorize_manual(u, tx_id, category_id)
  \/ Idle /\ Started /\ \E u \in Users : \E account_id \in 1..(MaxLinked + 1) :
               delete_linked_account(u, account_id)

StartupSpec == InitStartup /\ [][NextStartup]_vars

\* the table holds exactly one category for each name of the static list
\* and no other category
OnePerDefaultName ==
  /\ \A i \in 1..Len(DefaultCategoryNames) :
       Cardinality({ c \in categories : c.name = DefaultCategoryNames[i] }) = 1
  /\ \A c \in categories :
       \E i \in 1..Len(DefaultCategoryNames) : c.name = DefaultCategoryNames[i]

\* C21: initialize_categories creates each missing name of the static list
\* and nothing else, so after any number of runs there is exactly one
\* category per name; and no operation of the application deletes or
\* renames a category: the rows only change in a startup, which keeps the
\* rows it found.
C21_CategoriesCreatedOnce ==
  /\ [](Started => OnePerDefaultName)
  /\ [][/\ categories \subseteq categories'
        /\ categories' # categories => resp'.op = "initialize_categories"]_vars

\* the application started again on a database that already had its
\* categories and a synced transaction, and created nothing
C21_Witness ==
  /\ resp.op = "initialize_categories" /\ resp.created = 0
  /\ OnePerDefaultName
  /\ transactions # {}

(***************************************************************************)
(* Demo generation during which the store fails.                           *)
(***************************************************************************)
\* POST /api/demo/generate-data when the final commit raises: the deletion
\* of the user's transactions was committed before the generation began,
\* and the rollback goes back to that commit
generate_demo_data_faulting(u) ==
  /\ all_accounts(u) # <<>>
  /\ LET kept == { t \in transactions : t.user_id # u }
     IN \E flushed \in DemoOutcomes(DemoJobs(all_accounts(u)), u, kept) :
          LET committed == [transactions |-> kept,
                            linked_accounts |-> linked_accounts]
              pending == [transactions |-> flushed,
                          linked_accounts |-> linked_accounts]
              restored == rollback(committed, pending)
          IN /\ transactions' = restored.transactions
             /\ resp' = [op |-> "demo_fault", user |-> u, status |-> 500,
                         flushed |-> Cardinality(flushed \ kept)]
  /\ UNCHANGED <<bank_accounts, linked_accounts, categories, now, inflight>>

\* Linked accounts synced, and demo generations that succeed or fail.
NextDemoFault ==
  \/ Deliver
  \/ Idle /\ \E u \in Users : \E names_given \in BOOLEAN :
               bank_connect_new(u, names_given)
  \/ Idle /\ \E u \in Users : \E account_id \in 0..(MaxLinked + 1) :
               bank_sync_account(u, account_id)
  \/ Idle /\ \E u \in Users : generate_demo_data(u)
  \/ Idle /\ \E u \in Users : generate_demo_data_faulting(u)

DemoFaultSpec == Init /\ [][NextDemoFault]_vars

\* C22: when generate_demo_data fails partway, the user's stored
\* transactions are exactly those stored before the call.
C22_FailedDemoChangesNothing ==
  [][(Idle /\ resp'.op = "demo_fault") =>
       { t \in transactions' : t.user_id = resp'.user }
         = { t \in transactions : t.user_id = resp'.user }]_vars

(***************************************************************************)
(* Two syncs of one linked account at the same time.  One request is       *)
(* followed query by query; the other runs between its steps.  SQLite      *)
(* lets one connection write at a time: from its first flushed insert to   *)
(* its commit a request keeps the others from writing.                     *)
(***************************************************************************)
\* POST /api/bank/sync up to the generated statement (app.py 472-497)
sync_begin(u, account_id) ==
  /\ inflight.stage = "none"
  /\ OwnedBy(linked_accounts, account_id, u) # {}
  /\ \E feed \in generate_monthly_statement(now.year, now.month) :
       inflight' = [stage |-> "check", user |-> u, account_id |-> account_id,
                    feed |-> feed, k |-> 1, pending |-> {}, existing |-> FALSE]
  /\ UNCHANGED <<bank_accounts, linked_accounts, categories, transactions, now,
               resp>>

\* the existence query for candidate k: it sees the committed rows and the
\* rows this request has flushed
sync_check ==
  /\ inflight.stage = "check"
  /\ inflight' =
       IF inflight.k > Len(inflight.feed)
       THEN [inflight EXCEPT !.stage = "commit"]
       ELSE LET tx_data == inflight.feed[inflight.k]
            IN [inflight EXCEPT
                  !.stage = "add",
                  !.existing =
                    ExistingLinked(transactions \cup inflight.pending,
                                   inflight.account_id,
                                   ParseDate(tx_data.date), tx_data) # {}]
  /\ UNCHANGED <<bank_accounts, linked_accounts, categories, transactions, now,
               resp>>

\* `if not existing:` add, flush and categorize candidate k
sync_add ==
  /\ inflight.stage = "add"
  /\ LET tx_data == inflight.feed[inflight.k]
         seen == transactions \cup inflight.pending
         new_transaction ==
           [id |-> NextId(seen), user_id |-> inflight.user,
            bank_account_id |-> None, account_id |-> inflight.account_id,
            category_id |-> None, date |-> ParseDate(tx_data.date),
            description |-> tx_data.description,
            amount |-> Abs(tx_data.amount), transaction_type |-> "debit"]
     IN /\ inflight' =
             [inflight EXCEPT
                !.stage = "check", !.k = inflight.k + 1,
                !.pending =
                  IF inflight.existing THEN inflight.pending
                  ELSE inflight.pending \cup
                         {categorize_transaction(new_transaction, categories).tx}]
        /\ Cardinality(transactions \cup inflight'.pending) <= MaxTx
  /\ UNCHANGED <<bank_accounts, linked_accounts, categories, transactions, now,
               resp>>

\* last_synced, the commit and the response
sync_commit ==
  /\ inflight.stage = "commit"
  /\ transactions' = transactions \cup inflight.pending
  /\ linked_accounts' =
       { IF a.id = inflight.account_id THEN [a EXCEPT !.last_synced = UtcNow]
         ELSE a : a \in linked_accounts }
  /\ resp' = [op |-> "sync_threaded", user |-> inflight.user,
              account_id |-> inflight.account_id, status |-> 200,
              feed |-> inflight.feed,
              new_transactions |-> Cardinality(inflight.pending)]
  /\ inflight' = NoRequest
  /\ UNCHANGED <<bank_accounts, categories, now>>

\* the request followed step by step has flushed a row and not yet committed
WriteLocked == inflight.stage \in {"check", "add", "commit"} /\ inflight.pending # {}

NextSyncRace ==
  \/ Deliver
  \/ Idle /\ \E u \in Users : bank_connect_new(u, TRUE)
  \/ Idle /\ ~WriteLocked /\ \E u \in Users : \E account_id \in 1..MaxLinked :
               bank_sync_account(u, account_id)
  \/ Idle /\ \E u \in Users : \E account_id \in 1..MaxLinked :
               sync_begin(u, account_id)
  \/ sync_check
  \/ sync_add
  \/ Idle /\ sync_commit

SyncRaceSpec == Init /\ [][NextSyncRace]_vars

\* C23: when two syncs of one linked account run at the same time and the
\* feed gives both the same candidate, exactly one transaction with that
\* (date, description, amount) is stored for the account, in every
\* interleaving of their existence checks, inserts and commits.
C23_OneRowUnderConcurrentSyncs ==
  resp.op = "sync_threaded" =>
    \A i \in 1..Len(resp.feed) :
      Cardinality(StoredAs(resp.account_id, resp.feed[i])) = 1

(***************************************************************************)
(* Demo generation from statements that repeat a candidate.                *)
(***************************************************************************)
NextDemoRepeat ==
  \/ Deliver
  \/ Idle /\ \E u \in Users : \E auth_token \in AuthTokens :
               handle_api_callback(u, auth_token)
  \/ Idle /\ \E u \in Users : \E names_given \in BOOLEAN :
               bank_connect_new(u, names_given)
  \/ Idle /\ \E u \in Users : generate_demo_data_within(u, MaxDemoRepeat)

DemoRepeatSpec == Init /\ [][NextDemoRepeat]_vars

\* C24: after generate_demo_data has succeeded no account holds two stored
\* transactions with the same (date, description, amount), also when a
\* generated statement contains the same candidate more than once.
C24_DemoStoresNoDuplicates ==
  (resp.op = "demo" /\ resp.status = 200) =>
    \A t \in transactions : \A s \in transactions :
      (/\ s.id # t.id
       /\ s.bank_account_id = t.bank_account_id /\ s.account_id = t.account_id
       /\ s.date = t.date /\ s.description = t.description
       /\ s.amount = t.amount)
        => s.user_id # resp.user

(***************************************************************************)
(* A user with two legacy accounts.                                        *)
(***************************************************************************)
\* the accounts after user 1 has linked two banks and user 2 one, as
\* handle_api_callback creates them: named by their number, all active
LinkedLegacyAccounts ==
  { [id |-> 1, user_id |-> 1, account_name |-> AccountName(0),
     aa_token |-> "token-A", is_active |-> TRUE],
    [id |-> 2, user_id |-> 1, account_name |-> AccountName(1),
     aa_token |-> "token-B", is_active |-> TRUE],
    [id |-> 3, user_id |-> 2, account_name |-> AccountName(0),
     aa_token |-> "token-A", is_active |-> TRUE] }

InitActive ==
  /\ bank_accounts = LinkedLegacyAccounts
  /\ linked_accounts = {}
  /\ categories = InitialCategories
  /\ transactions = {}
  /\ now = StartNow
  /\ resp = [op |-> "none"]
  /\ inflight = NoRequest

\* the ids requests name: those of the three accounts and one of no account
AccountIds == 1..(Cardinality(LinkedLegacyAccounts) + 1)

NextActive ==
  \/ Deliver
  \/ Idle /\ \E u \in Users : \E account_id \in AccountIds :
               set_account_active(u, account_id)
  \/ Idle /\ \E u \in Users : \E account_id \in AccountIds :
               toggle_account_active(u, account_id)
  \/ Idle /\ \E u \in Users : \E account_id \in AccountIds :
               \E account_name \in AccountNames :
                 rename_account(u, account_id, account_name)

ActiveSpec == InitActive /\ [][NextActive]_vars

\* C25: after set_active_account(user, id) has returned True (the request
\* answers 200), account id is active, every other legacy account of that
\* user is inactive, and the accounts of other users are unchanged.
C25_OneActiveAccount ==
  [][(Idle /\ resp'.op = "set_active" /\ resp'.status = 200) =>
       /\ \A a \in bank_accounts' :
            a.user_id = resp'.user => (a.is_active <=> a.id = resp'.account_id)
       /\ \E a \in bank_accounts' :
            a.user_id = resp'.user /\ a.id = resp'.account_id
       /\ OthersRows(bank_accounts', resp'.user)
            = OthersRows(bank_accounts, resp'.user)]_vars

\* user 1, who has two accounts, made one of them the active one, and the
\* other one is inactive
C25_Witness ==
  /\ resp.op = "set_active" /\ resp.status = 200
  /\ \E a \in bank_accounts : \E b \in bank_accounts :
       /\ a.user_id = resp.user /\ a.id = resp.account_id /\ a.is_active
       /\ b.user_id = resp.user /\ b.id # a.id /\ ~b.is_active

(***************************************************************************)
(* The migration script run again.                                         *)
(***************************************************************************)
\* the accounts of user u that carry the user's old token: those the
\* migration created
MigratedAccounts(rows, u) ==
  { a \in rows : a.user_id = u /\ a.aa_token = user_aa_token(u) }

\* C26: migrate_user_to_multi_account is safe to run repeatedly: run again
\* for a user it has migrated it returns False and changes nothing, so a
\* user who had a token never has more than one account created by the
\* migration, has exactly one after a run that returned True, and no later
\* run links a transaction again.
C26_MigrationRunsOnce ==
  /\ [](\A u \in Users : Cardinality(MigratedAccounts(bank_accounts, u)) <= 1)
  /\ [][(Idle /\ resp'.op = "migrate") =>
          /\ resp'.ret =>
               Cardinality(MigratedAccounts(bank_accounts', resp'.user)) = 1
          /\ MigratedAccounts(bank_accounts, resp'.user) # {} =>
               /\ ~resp'.ret
               /\ bank_accounts' = bank_accounts
               /\ transactions' = transactions]_vars

\* the script ran again for a migrated user who has since synced a
\* transaction the migration did not link, and returned False
C26_Witness ==
  /\ resp.op = "migrate" /\ ~resp.ret
  /\ MigratedAccounts(bank_accounts, resp.user) # {}
  /\ \E t \in transactions : t.user_id = resp.user /\ t.bank_account_id = None

(***************************************************************************)
(* The dashboard total against the chart breakdown.                        *)
(***************************************************************************)
\* Linking, syncing and manual categorization, seen through both the
\* dashboard and the chart API.
NextBreakdown ==
  \/ Deliver
  \/ Idle /\ \E u \in Users : \E names_given \in BOOLEAN :
               bank_connect_new(u, names_given)
  \/ Idle /\ \E u \in Users : \E account_id \in 1..MaxLinked :
               bank_sync_account(u, account_id)
  \/ Idle /\ \E u \in Users : \E tx_id \in 1..MaxTx :
               \E category_id \in ManualBodies :
                 categorize_manual(u, tx_id, category_id)
  \/ DashboardRequest
  \/ ChartRequest

BreakdownSpec == Init /\ [][NextBreakdown]_vars

\* the sum of the amounts of a chart answer
RECURSIVE SumOfData(_)
SumOfData(data) ==
  IF data = <<>> THEN 0 ELSE Head(data) + SumOfData(Tail(data))

\* the total_spending the dashboard shows user u for the same selectors
DashboardTotalFor(u, account_param, month_param) ==
  LET sel == get_selected_account_and_month(u, account_param, month_param)
      ym == FilterMonth(sel.selected_month)
  IN OrZero(func_sum(MonthRows(ScopeRows(u, sel.account_type, sel.account_id),
                               ym.year, ym.month)))

\* a chart answer for the combined scope or an account of the caller
OwnedChartAnswer ==
  /\ ChartAnswer
  /\ OwnedScope(resp.user, ChartScope.account_type, ChartScope.account_id)
  /\ get_user_accounts(resp.user) # {} \/ get_linked_accounts(resp.user) # {}

\* C27: for the combined scope and for every owned account, and every
\* month, the amounts of the chart's breakdown (the categorized entries and
\* the 'Uncategorized' entry) add up to the dashboard's total_spending:
\* every matching transaction is counted in exactly one entry.
C27_BreakdownAddsUpToTotal ==
  OwnedChartAnswer =>
    SumOfData(resp.data) =
      DashboardTotalFor(resp.user, resp.account_param, resp.month_param)

\* C28: the labels of one chart response are pairwise distinct: the label
\* 'Uncategorized' appears at most once, whatever categories users have
\* assigned by hand.
C28_ChartLabelsDistinct ==
  resp.op = "chart" =>
    \A i \in 1..Len(resp.labels) : \A j \in 1..Len(resp.labels) :
      resp.labels[i] = resp.labels[j] => i = j

(***************************************************************************)
(* Demo data generated while other requests are served.                    *)
(***************************************************************************)
\* the row of an entry of all_accounts, as a query finds it now
AccountRow(account) ==
  IF account.account_type = "legacy" THEN Get(bank_accounts, account.id)
  ELSE Get(linked_accounts, account.id)

\* POST /api/demo/generate-data up to its first commit (app.py 804-824): the
\* accounts are loaded, the user's transactions deleted, and the commit
\* expires the loaded accounts
demo_begin(u) ==
  /\ inflight.stage = "none"
  /\ all_accounts(u) # <<>>
  /\ transactions' = { t \in transactions : t.user_id # u }
  /\ inflight' = [stage |-> "demo_load", user |-> u, accounts |-> all_accounts(u)]
  /\ UNCHANGED <<bank_accounts, linked_accounts, categories, now, resp>>

\* the name of the first account is read (app.py 829-831): the expired
\* object is loaded again, which fails when its row is gone
demo_load ==
  /\ inflight.stage = "demo_load"
  /\ IF AccountRow(inflight.accounts[1]) = {}
     THEN /\ resp' = [op |-> "demo", user |-> inflight.user, status |-> 500,
                      transactions |-> 0]
          /\ inflight' = NoRequest
     ELSE /\ inflight' = [inflight EXCEPT !.stage = "demo_generate"]
          /\ UNCHANGED resp
  /\ UNCHANGED <<bank_accounts, linked_accounts, categories, transactions, now>>

\* the loops and the final commit (app.py 829-871): the first flush takes
\* the write lock, so nothing else commits until the end; a later account
\* whose row is gone when its name is read fails the request
demo_generate ==
  /\ inflight.stage = "demo_generate"
  /\ inflight' = NoRequest
  /\ IF \E i \in 2..Len(inflight.accounts) : AccountRow(inflight.accounts[i]) = {}
     THEN /\ resp' = [op |-> "demo", user |-> inflight.user, status |-> 500,
                      transactions |-> 0]
          /\ UNCHANGED transactions
     ELSE \E result \in
              DemoOutcomesWithin(DemoJobs(inflight.accounts), inflight.user,
                                 transactions, MaxDemoTx) :
            /\ transactions' = result
            /\ resp' = [op |-> "demo", user |-> inflight.user, status |-> 200,
                        transactions |->
                          Cardinality(result) - Cardinality(transactions)]
  /\ UNCHANGED <<bank_accounts, linked_accounts, categories, now>>

\* Linking, syncing, the migration, deleting, and demo data generated step
\* by step while those are served.
NextDemoRace ==
  \/ Deliver
  \/ Idle /\ \E u \in Users : bank_connect_new(u, TRUE)
  \/ Idle /\ \E u \in Users : \E account_id \in 1..MaxLinked :
               bank_sync_account(u, account_id)
  \/ Idle /\ \E u \in Users : migrate_user_to_multi_account(u)
  \/ Idle /\ \E u \in Users : \E account_id \in 1..MaxLinked :
               delete_linked_account(u, account_id)
  \/ Idle /\ \E u \in Users : demo_begin(u)
  \/ Idle /\ demo_load
  \/ Idle /\ demo_generate

DemoRaceSpec == Init /\ [][NextDemoRace]_vars

\* C29: every stored transaction's account reference, when it is set, names
\* an existing account whose owner is the transaction's owner, after any
\* sequence and any interleaving of link, sync, demo generation, migration
\* and account deletion.
C29_AccountReferencesResolve ==
  \A t \in transactions :
    /\ t.account_id # None =>
         \E a \in linked_accounts : a.id = t.account_id /\ a.user_id = t.user_id
    /\ t.bank_account_id # None =>
         \E a \in bank_accounts : a.id = t.bank_account_id /\ a.user_id = t.user_id

(***************************************************************************)
(* The categorizer on the keywords themselves.                             *)
(***************************************************************************)
\* a transaction without a category whose description is exactly one
\* keyword of CATEGORY_KEYWORDS, with every default category stored
InitKeyword ==
  /\ bank_accounts = {}
  /\ linked_accounts = {}
  /\ categories = InitialCategories
  /\ \E ci \in 1..Len(CATEGORY_KEYWORDS) :
       \E ki \in 1..Len(CATEGORY_KEYWORDS[ci].keywords) :
         transactions =
           { [id |-> 1, user_id |-> 1, bank_account_id |-> None,
              account_id |-> None, category_id |-> None,
              date |-> [year |-> 2025, month |-> 12, day |-> 1],
              description |-> CATEGORY_KEYWORDS[ci].keywords[ki],
              amount |-> 100, transaction_type |-> "debit"] }
  /\ now = StartNow
  /\ resp = [op |-> "none"]
  /\ inflight = NoRequest

NextKeyword == \E t \in transactions : CategorizeCall(t)

KeywordSpec == InitKeyword /\ [][NextKeyword]_vars

\* C30: every keyword is effective: with all categories stored, a
\* transaction without a category whose description is exactly a keyword
\* of category C is categorized as C, that is, no keyword contains a
\* keyword of an earlier category.
C30_EveryKeywordEffective ==
  resp.op = "categorize" /\ resp.before = None =>
    \A t \in transactions :
      \A ci \in 1..Len(CATEGORY_KEYWORDS) :
        \A ki \in 1..Len(CATEGORY_KEYWORDS[ci].keywords) :
          t.description = CATEGORY_KEYWORDS[ci].keywords[ki] =>
            t.category_id = CategoryByName(categories, CATEGORY_KEYWORDS[ci].name)

=============================================================================
